---- MODULE Spec2Model ----
(***************************************************************************)
(* Trading-journal backend (jsgonzalez9/options): the position store and   *)
(* its CRUD operations (src/src/database/crud.py), the realized and        *)
(* unrealized P&L calculator (src/src/core/pnl_calculator.py), the spread  *)
(* structural validator (src/src/core/spread_validator.py) and the cash    *)
(* ledger (src/src/core/portfolio_manager.py).                             *)
(*                                                                         *)
(* Money and prices are integers (one unit = one price tick); Python's     *)
(* None is the empty sequence and a present value v is <<v>>.              *)
(*                                                                         *)
(* Specifications:                                                         *)
(*   Spec          one SQLAlchemy session working on positions and legs    *)
(*   SpecTemplates create_position and add_legs_to_position alone          *)
(*   SpecCash      serial update_cash_balance calls on the ledger          *)
(*   SpecCashConc  two update_cash_balance calls in separate transactions  *)
(*   SpecValidate  validate_spread_legs applied to bounded inputs          *)
(*   SpecCondor    validate_spread_legs applied to four-leg condor inputs  *)
(*   SpecRealized  calculate_realized_pnl_for_position on bounded inputs   *)
(*   SpecDelta     calculate_position_delta's underlying-price resolution  *)
(*   SpecLegDelta  calculate_leg_delta applied to bounded inputs           *)
(*   SpecGreeks    the Black-Scholes Greeks applied to bounded inputs      *)
(*   SpecParity    the Black-Scholes call and put prices on bounded inputs *)
(*   SpecProfitFactor  calculate_profit_factor on bounded P&L lists        *)
(***************************************************************************)
EXTENDS Integers, Sequences, FiniteSets, TLC

VARIABLES
    positions,      \* table "positions": id -> row (flushed rows of the session)
    option_legs,    \* table "option_legs": id -> row, with position_id
    pending,        \* session.new: Position objects added but not yet flushed
    last,           \* the most recent crud call and its outcome
    cash_setting,   \* table "portfolio_settings", row "cash_balance": <<>> or <<value>>
    cash_last,      \* the most recent serial update_cash_balance call and outcome
    txn,            \* SpecCashConc: per transaction, its call and its progress
    v_spread_type,  \* SpecValidate: the strategy label passed
    v_legs_data,    \* SpecValidate: the list of leg dicts passed
    v_result,       \* SpecValidate: what validate_spread_legs did
    pnl_position,   \* SpecRealized: the Position object passed
    pnl_legs,       \* SpecRealized: position.legs, in relationship order
    pnl_result,     \* SpecRealized: what calculate_realized_pnl_for_position returned
    delta_position, \* SpecDelta: the Position object passed
    delta_overrides,\* SpecDelta: underlying_prices_override, None or a dict
    delta_out,      \* SpecDelta: what calculate_position_delta did
    calc_args,      \* SpecLegDelta, SpecGreeks, SpecParity, SpecProfitFactor:
                    \* the arguments of the function the specification applies
    calc_out        \* ... and what the call did

vars == <<positions, option_legs, pending, last, cash_setting, cash_last, txn,
          v_spread_type, v_legs_data, v_result,
          pnl_position, pnl_legs, pnl_result,
          delta_position, delta_overrides, delta_out, calc_args, calc_out>>

posVars == <<positions, option_legs, pending, last>>
cashVars == <<cash_setting, cash_last, txn>>
valVars == <<v_spread_type, v_legs_data, v_result>>
pnlVars == <<pnl_position, pnl_legs, pnl_result>>
deltaVars == <<delta_position, delta_overrides, delta_out>>
calcVars == <<calc_args, calc_out>>

\* Python's None and Optional values.
None == <<>>

Some(v) == <<v>>

IsNone(x) == x = <<>>

Val(x) == x[1]

\* src/src/config.py
OPTION_MULTIPLIER == 100

(***************************************************************************)
(* Spread structural validator, src/src/core/spread_validator.py           *)
(*                                                                         *)
(* A leg dict maps each of option_type, strike_price, expiry_date and      *)
(* quantity to a pair <<tag, value>>:                                      *)
(*   <<"absent", _>>  the key is not in the dict                           *)
(*   <<"none", _>>    the key is there with value None                     *)
(*   <<"str", s>>     a string (an option type, or an expiry that was not  *)
(*                    parsed into a date)                                  *)
(*   <<"num", n>>     a number                                             *)
(*   <<"date", d>>    a datetime.date (d is a day number)                  *)
(* The outcome of a call is a record: exc is "" when the call returned     *)
(* (valid, msg) and the exception's name when it raised.                   *)
(***************************************************************************)
\* The message is its text with {} where the f-string puts the label passed
\* (field label) or the number of the leg (field leg).
Ret(ok, m) == [exc |-> "", valid |-> ok, msg |-> m, label |-> "", leg |-> 0]

Raise(e) == [exc |-> e, valid |-> FALSE, msg |-> "", label |-> "", leg |-> 0]

\* str.upper() on the strings the model passes (labels and option types).
Upper(s) ==
    CASE s = "Bull Call Spread" -> "BULL CALL SPREAD"
      [] s = "bull call spread" -> "BULL CALL SPREAD"
      [] s = "Iron Condor" -> "IRON CONDOR"
      [] s = "iron condor" -> "IRON CONDOR"
      [] s = "My Custom Spread" -> "MY CUSTOM SPREAD"
      [] s = "my custom spread" -> "MY CUSTOM SPREAD"
      [] s = "Stock" -> "STOCK"
      [] s = "call" -> "CALL"
      [] s = "put" -> "PUT"
      [] s = "closed" -> "CLOSED"
      [] s = "open" -> "OPEN"
      [] OTHER -> s

\* _get_leg_details: leg_data.get("option_type", "").upper(); an option_type
\* of None has no upper() (AttributeError), reported in field err.
get_leg_details(leg_data) ==
    [err |-> leg_data.option_type[1] = "none",
     type |-> IF leg_data.option_type[1] = "str"
              THEN Upper(leg_data.option_type[2]) ELSE "",
     strike |-> leg_data.strike_price,
     expiry |-> leg_data.expiry_date,
     quantity |-> leg_data.quantity]

\* Python's  x > 0  and  x < 0  on a value that may be None or absent (get()
\* gives None): "E" is the TypeError, "T"/"F" the boolean.
IsNum(x) == x[1] = "num"

Gt0(x) == IF ~IsNum(x) THEN "E" ELSE IF x[2] > 0 THEN "T" ELSE "F"

Lt0(x) == IF ~IsNum(x) THEN "E" ELSE IF x[2] < 0 THEN "T" ELSE "F"

\* a and b, b evaluated only when a is true; an error in either propagates.
And3(a, b) == IF a = "E" THEN "E" ELSE IF a = "F" THEN "F" ELSE b

\* a or b, b evaluated only when a is false.
Or3(a, b) == IF a = "E" THEN "E" ELSE IF a = "T" THEN "T" ELSE b

validate_bull_call_spread(legs_data) ==
    IF Len(legs_data) # 2
    THEN Ret(FALSE, "Bull Call Spread must have exactly two legs.")
    ELSE
    LET leg1 == get_leg_details(legs_data[1])
        leg2 == get_leg_details(legs_data[2])
        oneLongOneShort ==
            Or3(And3(Gt0(leg1.quantity), Lt0(leg2.quantity)),
                And3(Lt0(leg1.quantity), Gt0(leg2.quantity)))
        long_leg == IF Gt0(leg1.quantity) = "T" THEN leg1 ELSE leg2
        short_leg == IF Gt0(leg1.quantity) = "T" THEN leg2 ELSE leg1
    IN  IF leg1.err \/ leg2.err THEN Raise("AttributeError")
        ELSE IF ~(leg1.type = "CALL" /\ leg2.type = "CALL")
        THEN Ret(FALSE, "Both legs of a Bull Call Spread must be CALL options.")
        ELSE IF oneLongOneShort = "E" THEN Raise("TypeError")
        ELSE IF oneLongOneShort = "F"
        THEN Ret(FALSE, "Bull Call Spread requires one long call and one short call.")
        ELSE IF long_leg.expiry # short_leg.expiry
        THEN Ret(FALSE, "Both legs of a Bull Call Spread must have the same expiry date.")
        ELSE IF ~(IsNum(long_leg.strike) /\ IsNum(short_leg.strike)
                  /\ long_leg.strike[2] < short_leg.strike[2])
        THEN Ret(FALSE, "For a Bull Call Spread, the long call strike must be lower than the short call strike.")
        ELSE Ret(TRUE, "Valid Bull Call Spread.")

\* The legs of one option type, in list order.
LegsOfType(legs, t) == SelectSeq(legs, LAMBDA l : l.type = t)

\* sorted(two, key=strike) on a list of two legs: stable, ascending.
SortedByStrike(two) ==
    IF two[2].strike[2] < two[1].strike[2] THEN <<two[2], two[1]>> ELSE two

\* sorted(...) compares strikes as soon as there are two elements: a None
\* strike among them is a TypeError.
SortRaises(sel) ==
    Len(sel) >= 2 /\ \E i \in 1..Len(sel) : ~IsNum(sel[i].strike)

validate_iron_condor(legs_data) ==
    IF Len(legs_data) # 4
    THEN Ret(FALSE, "Iron Condor must have exactly four legs.")
    ELSE
    LET legs == [i \in 1..4 |-> get_leg_details(legs_data[i])]
        putSel == LegsOfType(legs, "PUT")
        callSel == LegsOfType(legs, "CALL")
        puts == SortedByStrike(putSel)
        calls == SortedByStrike(callSel)
        \* long_put / short_put, first as (puts[0], puts[1]), else reversed
        putsFirst == Gt0(puts[1].quantity) = "T" /\ Lt0(puts[2].quantity) = "T"
        putsSecond == Gt0(puts[2].quantity) = "T" /\ Lt0(puts[1].quantity) = "T"
        long_put == IF putsFirst THEN puts[1] ELSE puts[2]
        short_put == IF putsFirst THEN puts[2] ELSE puts[1]
        callsFirst == Lt0(calls[1].quantity) = "T" /\ Gt0(calls[2].quantity) = "T"
        callsSecond == Lt0(calls[2].quantity) = "T" /\ Gt0(calls[1].quantity) = "T"
        short_call == IF callsFirst THEN calls[1] ELSE calls[2]
        long_call == IF callsFirst THEN calls[2] ELSE calls[1]
        Abs(n) == IF n < 0 THEN -n ELSE n
        abs_qty == Abs(long_put.quantity[2])
    IN  IF \E i \in 1..4 : legs[i].err THEN Raise("AttributeError")
        ELSE IF \E i \in 1..4 : legs[i].expiry # legs[1].expiry
        THEN Ret(FALSE, "All legs of an Iron Condor must have the same expiry date.")
        ELSE IF SortRaises(putSel) \/ SortRaises(callSel) THEN Raise("TypeError")
        ELSE IF ~(Len(putSel) = 2 /\ Len(callSel) = 2)
        THEN Ret(FALSE, "Iron Condor must consist of two PUTs and two CALLs.")
        ELSE IF \E i \in 1..4 : ~IsNum(legs[i].quantity) THEN Raise("TypeError")
        ELSE IF ~((putsFirst \/ putsSecond) /\ (callsFirst \/ callsSecond))
        THEN Ret(FALSE, "Iron Condor structure incorrect: requires one long put, one short put, one short call, and one long call.")
        ELSE IF ~(Abs(short_put.quantity[2]) = abs_qty
                  /\ Abs(short_call.quantity[2]) = abs_qty
                  /\ Abs(long_call.quantity[2]) = abs_qty)
        THEN Ret(FALSE, "All legs of an Iron Condor should typically involve the same absolute number of contracts.")
        ELSE IF ~(long_put.strike[2] < short_put.strike[2]
                  /\ short_put.strike[2] < short_call.strike[2]
                  /\ short_call.strike[2] < long_call.strike[2])
        THEN Ret(FALSE, "Strike prices for Iron Condor are not in the correct order.")
        ELSE Ret(TRUE, "Valid Iron Condor.")

\* SPREAD_VALIDATORS: the registered templates, keyed by upper-cased label.
SPREAD_VALIDATORS == {"BULL CALL SPREAD", "IRON CONDOR"}

\* all(k in leg_d for k in [...]) for one leg dict
HasRequiredKeys(leg_d) ==
    /\ leg_d.option_type[1] # "absent"
    /\ leg_d.strike_price[1] # "absent"
    /\ leg_d.expiry_date[1] # "absent"
    /\ leg_d.quantity[1] # "absent"

\* The first leg (in list order) the pre-dispatch loop rejects, 0 if none.
FirstBadLeg(legs_data) ==
    LET bad == {i \in 1..Len(legs_data) :
                   \/ ~HasRequiredKeys(legs_data[i])
                   \/ legs_data[i].expiry_date[1] # "date"}
    IN  IF bad = {} THEN 0 ELSE CHOOSE i \in bad : \A j \in bad : i <= j

\* validate_spread_legs handing the legs to the template's checker without
\* the loop over required keys and expiry types.
validate_spread_legs_noKeyCheck(spread_type, legs_data) ==
    IF Upper(spread_type) \notin SPREAD_VALIDATORS
    THEN [Ret(TRUE, "No specific validator for spread type '{}'. Allowed by default.")
             EXCEPT !.label = spread_type]
    ELSE IF Upper(spread_type) = "BULL CALL SPREAD"
    THEN validate_bull_call_spread(legs_data)
    ELSE validate_iron_condor(legs_data)

\* validate_spread_legs looking the label up as it was passed, without
\* upper-casing it.
validate_spread_legs_caseSensitive(spread_type, legs_data) ==
    IF spread_type \notin {"Bull Call Spread", "Iron Condor"}
    THEN [Ret(TRUE, "No specific validator for spread type '{}'. Allowed by default.")
             EXCEPT !.label = spread_type]
    ELSE LET i == FirstBadLeg(legs_data)
         IN  IF i # 0
             THEN [Ret(FALSE, "Leg {} expiry_date must be a datetime.date object.")
                     EXCEPT !.leg = i]
             ELSE IF spread_type = "Bull Call Spread"
             THEN validate_bull_call_spread(legs_data)
             ELSE validate_iron_condor(legs_data)

validate_spread_legs(spread_type, legs_data) ==
    IF Upper(spread_type) \notin SPREAD_VALIDATORS
    THEN [Ret(TRUE, "No specific validator for spread type '{}'. Allowed by default.")
             EXCEPT !.label = spread_type]
    ELSE LET i == FirstBadLeg(legs_data)
         IN  IF i # 0 /\ ~HasRequiredKeys(legs_data[i])
             THEN [Ret(FALSE, "Leg {} data is missing one or more required keys (option_type, strike_price, expiry_date, quantity).")
                     EXCEPT !.leg = i]
             ELSE IF i # 0
             THEN [Ret(FALSE, "Leg {} expiry_date must be a datetime.date object.")
                     EXCEPT !.leg = i]
             ELSE IF Upper(spread_type) = "BULL CALL SPREAD"
             THEN validate_bull_call_spread(legs_data)
             ELSE validate_iron_condor(legs_data)

(***************************************************************************)
(* Cash ledger, src/src/core/portfolio_manager.py                          *)
(***************************************************************************)
\* Largest amount a call passes (amounts range over -1..MaxAmount).
MaxAmount == 3

\* Deposits stop once the balance would pass this cap.
MaxBalance == 10

Amounts == (-1)..MaxAmount

\* get_cash_balance, and lines 30-32 of update_cash_balance: 0.0 when the row
\* is absent.
get_cash_balance(setting) == IF IsNone(setting) THEN 0 ELSE Val(setting)

\* A check that lets every withdrawal through, which the code does not do.
Overdraws_neverRefuses(current_balance, amount_change, is_deposit) == FALSE

\* Lines 34-40: the new balance, or the overdraft ValueError.
Overdraws(current_balance, amount_change, is_deposit) ==
    ~is_deposit /\ amount_change > current_balance

new_balance(current_balance, amount_change, is_deposit) ==
    IF is_deposit THEN current_balance + amount_change
    ELSE current_balance - amount_change

\* update_cash_balance run without interruption on the stored row: the row
\* afterwards, the exception raised ("" if none) and the value returned.
update_cash_balance_noOverdraftCheck(setting, amount_change, is_deposit) ==
    LET current_balance == get_cash_balance(setting)
    IN  IF amount_change < 0
        THEN [exc |-> "ValueError", setting |-> setting, ret |-> 0]
        ELSE [exc |-> "",
              setting |-> Some(new_balance(current_balance, amount_change, is_deposit)),
              ret |-> new_balance(current_balance, amount_change, is_deposit)]

update_cash_balance_writeThenCheck(setting, amount_change, is_deposit) ==
    LET current_balance == get_cash_balance(setting)
    IN  IF amount_change < 0 \/ Overdraws(current_balance, amount_change, is_deposit)
        THEN [exc |-> "ValueError", setting |-> Some(current_balance), ret |-> 0]
        ELSE [exc |-> "",
              setting |-> Some(new_balance(current_balance, amount_change, is_deposit)),
              ret |-> new_balance(current_balance, amount_change, is_deposit)]

update_cash_balance(setting, amount_change, is_deposit) ==
    LET current_balance == get_cash_balance(setting)
    IN  IF amount_change < 0
        THEN [exc |-> "ValueError", setting |-> setting, ret |-> 0]
        ELSE IF Overdraws(current_balance, amount_change, is_deposit)
        THEN [exc |-> "ValueError", setting |-> setting, ret |-> 0]
        ELSE [exc |-> "",
              setting |-> Some(new_balance(current_balance, amount_change, is_deposit)),
              ret |-> new_balance(current_balance, amount_change, is_deposit)]

\* One serial call: manage_cash_balance commits what an accepted call wrote
\* and rolls back after a ValueError (a rejected call wrote nothing).
UpdateCashBalance(amount_change, is_deposit) ==
    LET r == update_cash_balance(cash_setting, amount_change, is_deposit)
    IN  /\ get_cash_balance(r.setting) <= MaxBalance
        /\ cash_setting' = r.setting
        /\ cash_last' = [amount |-> amount_change, is_deposit |-> is_deposit,
                         exc |-> r.exc, before |-> cash_setting, ret |-> r.ret]
        /\ UNCHANGED <<txn, posVars, valVars, pnlVars, deltaVars, calcVars>>

NoCall == [amount |-> 0, is_deposit |-> TRUE, exc |-> "none", before |-> None, ret |-> 0]

IdleTxn == [pc |-> "idle", amount |-> 0, is_deposit |-> TRUE, found |-> FALSE,
            current_balance |-> 0, new_balance |-> 0, seenWrites |-> 0, wrote |-> 0]

Txns == {1, 2}

\* The parts of the state a specification does not use stay at these values.
PosIdle ==
    /\ positions = <<>>
    /\ option_legs = <<>>
    /\ pending = <<>>
    /\ last = [op |-> "none", found |-> TRUE, exc |-> "", msg |-> "",
               original_status |-> "", legs_deleted |-> 0,
               position_id |-> 0, repeated |-> FALSE]

CashIdle ==
    /\ cash_setting = None
    /\ cash_last = NoCall
    /\ txn = [t \in Txns |-> IdleTxn]

ValIdle ==
    /\ v_spread_type = ""
    /\ v_legs_data = <<>>
    /\ v_result = [exc |-> "none"]

PnlIdle ==
    /\ pnl_position = <<>>
    /\ pnl_legs = <<>>
    /\ pnl_result = None

DeltaIdle ==
    /\ delta_position = <<>>
    /\ delta_overrides = None
    /\ delta_out = [ret |-> "none"]

CalcIdle ==
    /\ calc_args = <<>>
    /\ calc_out = [exc |-> "none"]

InitCash == PosIdle /\ CashIdle /\ ValIdle /\ PnlIdle /\ DeltaIdle /\ CalcIdle

NextCash == \E a \in Amounts, d \in BOOLEAN : UpdateCashBalance(a, d)

SpecCash == InitCash /\ [][NextCash]_vars

(***************************************************************************)
(* Two update_cash_balance calls in separate transactions, with nothing    *)
(* but the code between them: each reads the row (the query of line 28),   *)
(* computes and checks on its own copy, and writes the row back (the       *)
(* flush of line 49 and the caller's commit).                              *)
(***************************************************************************)
\* Largest balance the ledger starts with.
MaxStartBalance == 3

\* The number of write-backs so far.
WritesSoFar == Cardinality({t \in Txns : txn[t].pc = "done"})

\* Line 25 and the query of line 28, then lines 30-40 on the local copy.
TxnRead(t, amount_change, is_deposit) ==
    /\ txn[t].pc = "idle"
    /\ LET current_balance == get_cash_balance(cash_setting)
           rejected == amount_change < 0
                       \/ Overdraws(current_balance, amount_change, is_deposit)
       IN  txn' = [txn EXCEPT ![t] =
                     [pc |-> IF rejected THEN "rejected" ELSE "read",
                      amount |-> amount_change, is_deposit |-> is_deposit,
                      found |-> ~IsNone(cash_setting),
                      current_balance |-> current_balance,
                      new_balance |-> IF rejected THEN 0
                                      ELSE new_balance(current_balance, amount_change, is_deposit),
                      seenWrites |-> WritesSoFar, wrote |-> 0]]
    /\ UNCHANGED <<cash_setting, cash_last, posVars, valVars, pnlVars, deltaVars, calcVars>>

\* A write-back done as an atomic increment of the stored value (UPDATE ...
\* SET value = value + delta), which the code does not do.
WriteBack_atomicIncrement(setting, t) ==
    Some(get_cash_balance(setting) + (t.new_balance - t.current_balance))

\* Lines 42-46 and the flush: the row's value becomes the new balance this
\* transaction computed from what it read.
WriteBack(setting, t) == Some(t.new_balance)

\* The row was there when this transaction read it: UPDATE.
TxnUpdate(t) ==
    /\ txn[t].pc = "read"
    /\ txn[t].found
    /\ cash_setting' = WriteBack(cash_setting, txn[t])
    /\ txn' = [txn EXCEPT ![t].pc = "done", ![t].wrote = WritesSoFar + 1]
    /\ UNCHANGED <<cash_last, posVars, valVars, pnlVars, deltaVars, calcVars>>

\* No row when it read: INSERT, which the primary key on "key" refuses
\* (IntegrityError) when the other transaction has inserted the row since.
TxnInsert(t) ==
    /\ txn[t].pc = "read"
    /\ ~txn[t].found
    /\ IF IsNone(cash_setting)
       THEN /\ cash_setting' = WriteBack(cash_setting, txn[t])
            /\ txn' = [txn EXCEPT ![t].pc = "done", ![t].wrote = WritesSoFar + 1]
       ELSE /\ cash_setting' = cash_setting
            /\ txn' = [txn EXCEPT ![t].pc = "failed"]
    /\ UNCHANGED <<cash_last, posVars, valVars, pnlVars, deltaVars, calcVars>>

InitCashConc ==
    /\ PosIdle /\ ValIdle /\ PnlIdle /\ DeltaIdle /\ CalcIdle
    /\ cash_setting \in {None} \cup {Some(b) : b \in 0..MaxStartBalance}
    /\ cash_last = NoCall
    /\ txn = [t \in Txns |-> IdleTxn]

NextCashConc ==
    \/ \E t \in Txns, a \in Amounts, d \in BOOLEAN : TxnRead(t, a, d)
    \/ \E t \in Txns : TxnUpdate(t)
    \/ \E t \in Txns : TxnInsert(t)

SpecCashConc == InitCashConc /\ [][NextCashConc]_vars

(***************************************************************************)
(* P&L calculator, src/src/core/pnl_calculator.py                          *)
(***************************************************************************)
RECURSIVE SetSum(_, _)
\* The sum of F[x] over the finite set S.
SetSum(S, F) ==
    IF S = {} THEN 0
    ELSE LET x == CHOOSE y \in S : TRUE IN F[x] + SetSum(S \ {x}, F)

calculate_leg_pnl(leg_entry_price, leg_market_price, leg_quantity, multiplier) ==
    IF leg_quantity = 0 THEN 0
    ELSE (leg_market_price - leg_entry_price) * leg_quantity * multiplier

\* A variant that applies the option multiplier to every leg.
calculate_unrealized_pnl_for_leg_optionMultiplier(leg) ==
    IF IsNone(leg.current_price_per_unit) THEN 0
    ELSE calculate_leg_pnl(leg.entry_price_per_unit, Val(leg.current_price_per_unit),
                           leg.quantity, OPTION_MULTIPLIER)

calculate_unrealized_pnl_for_leg(leg) ==
    IF IsNone(leg.current_price_per_unit) THEN 0
    ELSE calculate_leg_pnl(leg.entry_price_per_unit, Val(leg.current_price_per_unit),
                           leg.quantity,
                           IF leg.option_type = "STOCK" THEN 1 ELSE OPTION_MULTIPLIER)

\* position.legs: the ids of the rows of legs whose position_id is pid.
LegIdsOf(legs, pid) == {i \in DOMAIN legs : legs[i].position_id = pid}

\* A variant that lets the legs' closing prices take precedence over the
\* position's closing_price.
calculate_realized_pnl_preferLegs(position, legs) ==
    LET closed == {i \in DOMAIN legs : ~IsNone(legs[i].closing_price_per_unit)}
    IN  IF closed # {}
        THEN SetSum(closed,
                    [i \in DOMAIN legs |->
                        IF IsNone(legs[i].closing_price_per_unit) THEN 0
                        ELSE (Val(legs[i].closing_price_per_unit)
                                - legs[i].entry_price_per_unit)
                             * legs[i].quantity * OPTION_MULTIPLIER])
        ELSE IF ~IsNone(position.closing_price)
        THEN Val(position.closing_price) - position.cost_basis
        ELSE 0

\* calculate_realized_pnl_for_position on a Position row and the leg rows
\* (a table id -> row) it owns.
calculate_realized_pnl_for_position(position, legs) ==
    IF ~IsNone(position.closing_price)
    THEN Val(position.closing_price) - position.cost_basis
    ELSE IF position.is_stock_position /\ DOMAIN legs # {}
    THEN LET first == CHOOSE i \in DOMAIN legs : \A j \in DOMAIN legs : i <= j
             leg == legs[first]
         IN  IF ~IsNone(leg.closing_price_per_unit)
             THEN calculate_leg_pnl(leg.entry_price_per_unit,
                                    Val(leg.closing_price_per_unit), leg.quantity, 1)
             ELSE 0
    ELSE IF ~position.is_stock_position /\ DOMAIN legs # {}
    THEN SetSum({i \in DOMAIN legs : ~IsNone(legs[i].closing_price_per_unit)},
                [i \in DOMAIN legs |->
                    IF IsNone(legs[i].closing_price_per_unit) THEN 0
                    ELSE calculate_leg_pnl(legs[i].entry_price_per_unit,
                                           Val(legs[i].closing_price_per_unit),
                                           legs[i].quantity, OPTION_MULTIPLIER)])
    ELSE 0

(***************************************************************************)
(* Position store, src/src/database/crud.py and models.py                  *)
(*                                                                         *)
(* One session (autoflush off, setup.py).  positions and option_legs are   *)
(* the rows as of the session's last flush; pending holds the Position     *)
(* objects db.add() has put in the session and no flush has inserted yet.  *)
(* The caller commits after a call that returned ("COMMIT IS HANDLED BY    *)
(* CALLER"), so a rollback has only the pending objects to discard.        *)
(***************************************************************************)
\* Ids of table "positions" range over 1..MaxPositions.
MaxPositions == 1

\* Ids of table "option_legs" range over 1..MaxLegs.
MaxLegs == 2

\* Longest legs_data list a call passes.
MaxNewLegs == 2

LongCall == [option_type |-> "CALL", strike_price |-> 100, expiry_date |-> 1,
             quantity |-> 1, entry_price_per_unit |-> 2]

ShortCall == [option_type |-> "CALL", strike_price |-> 105, expiry_date |-> 1,
              quantity |-> -1, entry_price_per_unit |-> 1]

\* A share holding as the CSV importer writes it (csv_importer.py 72-78):
\* type STOCK, strike 0, quantity the share count.
StockLeg == [option_type |-> "STOCK", strike_price |-> 0, expiry_date |-> 1,
             quantity |-> 10, entry_price_per_unit |-> 5]

LegChoices == {LongCall, ShortCall, StockLeg}

LegsDataInputs == UNION {[1..n -> LegChoices] : n \in 0..MaxNewLegs}

\* "Stock" is the label the CSV importer gives a share holding
\* (csv_importer.py line 86).
SpreadTypes == {"Bull Call Spread", "My Custom Spread", "Stock"}

CreateStatuses == {"OPEN", "CLOSED"}

StatusInputs == {"OPEN", "CLOSED", "ROLLED", "EXPIRED", "closed"}

ClosingPriceInputs == {None, Some(350)}

LegPriceInputs == {3}

\* The dict a legs_data entry is, as the validator reads it.
LegDict(l) ==
    [option_type |-> <<"str", l.option_type>>,
     strike_price |-> <<"num", l.strike_price>>,
     expiry_date |-> <<"date", l.expiry_date>>,
     quantity |-> <<"num", l.quantity>>]

LegDicts(legs_data) == [i \in 1..Len(legs_data) |-> LegDict(legs_data[i])]

RECURSIVE SeqSum(_)
\* The sum of a sequence of integers.
SeqSum(q) == IF q = <<>> THEN 0 ELSE Head(q) + SeqSum(Tail(q))

calculate_position_cost_basis(legs_data) ==
    SeqSum([i \in 1..Len(legs_data) |->
               legs_data[i].quantity * legs_data[i].entry_price_per_unit])
        * OPTION_MULTIPLIER

\* An INTEGER PRIMARY KEY of SQLite: one more than the largest id in use.
MaxId(table) ==
    IF DOMAIN table = {} THEN 0
    ELSE CHOOSE i \in DOMAIN table : \A j \in DOMAIN table : j <= i

\* db.flush(): the pending Position objects are inserted, oldest first.
FlushPending(pos, pend) ==
    [i \in DOMAIN pos \cup {MaxId(pos) + k : k \in 1..Len(pend)} |->
        IF i \in DOMAIN pos THEN pos[i] ELSE pend[i - MaxId(pos)]]

\* models.Position(...) as create_position builds it (lines 51-59); the
\* columns it does not pass take their defaults (models.py).
NewPosition(spread_type, cost_basis, status) ==
    [spread_type |-> spread_type, status |-> status, is_stock_position |-> FALSE,
     cost_basis |-> cost_basis, closing_price |-> None,
     unrealized_pnl |-> 0, realized_pnl |-> 0]

\* models.OptionLeg(...) for one legs_data entry.
NewLeg(position_id, leg_info) ==
    [position_id |-> position_id, option_type |-> leg_info.option_type,
     strike_price |-> leg_info.strike_price, expiry_date |-> leg_info.expiry_date,
     quantity |-> leg_info.quantity,
     entry_price_per_unit |-> leg_info.entry_price_per_unit,
     current_price_per_unit |-> None, closing_price_per_unit |-> None]

\* The legs table after inserting one row per legs_data entry, in order.
InsertLegs(legs, position_id, legs_data) ==
    [i \in DOMAIN legs \cup {MaxId(legs) + k : k \in 1..Len(legs_data)} |->
        IF i \in DOMAIN legs THEN legs[i]
        ELSE NewLeg(position_id, legs_data[i - MaxId(legs)])]

\* The rows of legs a position owns, as a table id -> row.
OwnedLegs(legs, pid) == [i \in LegIdsOf(legs, pid) |-> legs[i]]

\* What the most recent call did: the exception it raised ("" if it returned)
\* with its message, whether it found the row it was asked for, and the
\* original_status update_position_status read (line 111; "" elsewhere), and
\* the number of leg rows a delete_position took with the position.  For
\* update_position_status also the position_id it was given (0 elsewhere) and
\* whether the call before it was update_position_status on the same row.
Call(op, found, exc, msg) ==
    [op |-> op, found |-> found, exc |-> exc, msg |-> msg, original_status |-> "",
     legs_deleted |-> 0, position_id |-> 0, repeated |-> FALSE]

\* create_position with the ids of the two tables bounded by maxPositions
\* and maxLegs.
create_position_in(maxPositions, maxLegs, spread_type, legs_data, status) ==
    LET cost_basis == calculate_position_cost_basis(legs_data)
        db_position == NewPosition(spread_type, cost_basis, status)
        v == validate_spread_legs(spread_type, LegDicts(legs_data))
        new_id == MaxId(positions) + Len(pending) + 1
    IN  /\ new_id <= maxPositions
        /\ MaxId(option_legs) + Len(legs_data) <= maxLegs
        /\ IF ~v.valid
           THEN \* db.add(db_position) has happened; the ValueError leaves it
                /\ pending' = Append(pending, db_position)
                /\ UNCHANGED <<positions, option_legs>>
                /\ last' = Call("create_position", TRUE, "ValueError", v.msg)
           ELSE /\ positions' = FlushPending(positions, Append(pending, db_position))
                /\ option_legs' = InsertLegs(option_legs, new_id, legs_data)
                /\ pending' = <<>>
                /\ last' = Call("create_position", TRUE, "", "")
        /\ UNCHANGED <<cashVars, valVars, pnlVars, deltaVars, calcVars>>

create_position(spread_type, legs_data, status) ==
    create_position_in(MaxPositions, MaxLegs, spread_type, legs_data, status)

\* The legs_data the CSV importer builds for one row: the one
\* representative STOCK leg.
StockLegsDataInputs == {<<StockLeg>>}

\* crud.create_position as import_stock_positions_from_csv (csv_importer.py
\* 83-93) and create_new_position (positions.py 57-66) call it, with the
\* keywords underlying_symbol, is_stock_position and stock_quantity.  The
\* function (crud.py 33-35) has no such parameters, so the call raises
\* TypeError before its first statement; the importer counts the row as
\* failed and goes on, the route answers 500.
create_position_is_stock(legs_data) ==
    /\ last' = Call("create_position(is_stock_position=True)", TRUE, "TypeError",
                    "create_position() got an unexpected keyword argument")
    /\ UNCHANGED <<positions, option_legs, pending, cashVars, valVars, pnlVars, deltaVars, calcVars>>

\* update_position_status computing the realized P&L before it stores the
\* closing price given.
StatusUpdated_pnlBeforePrice(db_position, legs, new_status, closing_price) ==
    LET original_status == db_position.status
        new_status_upper == Upper(new_status)
        withStatus == [db_position EXCEPT !.status = new_status_upper]
    IN  IF new_status_upper = "CLOSED"
        THEN LET withPrice ==
                     IF ~IsNone(closing_price)
                     THEN [withStatus EXCEPT !.closing_price = closing_price]
                     ELSE withStatus
             IN  [withPrice EXCEPT
                     !.realized_pnl = calculate_realized_pnl_for_position(withStatus, legs),
                     !.unrealized_pnl = 0]
        ELSE IF original_status = "CLOSED"
        THEN [withStatus EXCEPT !.realized_pnl = 0, !.closing_price = None]
        ELSE withStatus

\* update_position_status recomputing the unrealized P&L from the legs'
\* current prices when it reopens a position.
StatusUpdated_reopenRecomputes(db_position, legs, new_status, closing_price) ==
    LET original_status == db_position.status
        new_status_upper == Upper(new_status)
        withStatus == [db_position EXCEPT !.status = new_status_upper]
    IN  IF new_status_upper = "CLOSED"
        THEN LET withPrice ==
                     IF ~IsNone(closing_price)
                     THEN [withStatus EXCEPT !.closing_price = closing_price]
                     ELSE withStatus
             IN  [withPrice EXCEPT
                     !.realized_pnl = calculate_realized_pnl_for_position(withPrice, legs),
                     !.unrealized_pnl = 0]
        ELSE IF original_status = "CLOSED"
        THEN [withStatus EXCEPT
                 !.realized_pnl = 0, !.closing_price = None,
                 !.unrealized_pnl =
                     SetSum(DOMAIN legs,
                            [i \in DOMAIN legs |->
                                calculate_unrealized_pnl_for_leg(legs[i])])]
        ELSE withStatus

\* The Position row update_position_status leaves (lines 111-133).
\* update_position_status storing the closing price given under every new
\* status.
StatusUpdated_priceUnderAnyStatus(db_position, legs, new_status, closing_price) ==
    LET original_status == db_position.status
        new_status_upper == Upper(new_status)
        withStatus == [db_position EXCEPT !.status = new_status_upper]
        withPrice ==
            IF ~IsNone(closing_price)
            THEN [withStatus EXCEPT !.closing_price = closing_price]
            ELSE withStatus
    IN  IF new_status_upper = "CLOSED"
        THEN [withPrice EXCEPT
                 !.realized_pnl = calculate_realized_pnl_for_position(withPrice, legs),
                 !.unrealized_pnl = 0]
        ELSE IF original_status = "CLOSED"
        THEN [withPrice EXCEPT !.realized_pnl = 0]
        ELSE withPrice

\* A close that adds the computed realized P&L to the stored one, which the
\* code does not do.
StatusUpdated_closeAccumulates(db_position, legs, new_status, closing_price) ==
    LET original_status == db_position.status
        new_status_upper == Upper(new_status)
        withStatus == [db_position EXCEPT !.status = new_status_upper]
    IN  IF new_status_upper = "CLOSED"
        THEN LET withPrice ==
                     IF ~IsNone(closing_price)
                     THEN [withStatus EXCEPT !.closing_price = closing_price]
                     ELSE withStatus
             IN  [withPrice EXCEPT
                     !.realized_pnl = @ + calculate_realized_pnl_for_position(withPrice, legs),
                     !.unrealized_pnl = 0]
        ELSE IF original_status = "CLOSED"
        THEN [withStatus EXCEPT !.realized_pnl = 0, !.closing_price = None]
        ELSE withStatus

StatusUpdated(db_position, legs, new_status, closing_price) ==
    LET original_status == db_position.status
        new_status_upper == Upper(new_status)
        withStatus == [db_position EXCEPT !.status = new_status_upper]
    IN  IF new_status_upper = "CLOSED"
        THEN LET withPrice ==
                     IF ~IsNone(closing_price)
                     THEN [withStatus EXCEPT !.closing_price = closing_price]
                     ELSE withStatus
             IN  [withPrice EXCEPT
                     !.realized_pnl = calculate_realized_pnl_for_position(withPrice, legs),
                     !.unrealized_pnl = 0]
        ELSE IF original_status = "CLOSED"
        THEN [withStatus EXCEPT !.realized_pnl = 0, !.closing_price = None]
        ELSE withStatus

update_position_status(position_id, new_status, closing_price) ==
    /\ last' = [Call("update_position_status", position_id \in DOMAIN positions, "", "")
                    EXCEPT !.original_status =
                               IF position_id \in DOMAIN positions
                               THEN positions[position_id].status ELSE "",
                           !.position_id = position_id,
                           !.repeated = /\ last.op = "update_position_status"
                                        /\ last.found
                                        /\ last.position_id = position_id]
    /\ IF position_id \in DOMAIN positions
       THEN /\ positions' = FlushPending(
                   [positions EXCEPT ![position_id] =
                       StatusUpdated(positions[position_id],
                                     OwnedLegs(option_legs, position_id),
                                     new_status, closing_price)],
                   pending)
            /\ pending' = <<>>
       ELSE UNCHANGED <<positions, pending>>
    /\ UNCHANGED <<option_legs, cashVars, valVars, pnlVars, deltaVars, calcVars>>

\* add_legs_to_position with the ids of option_legs bounded by maxLegs.
add_legs_to_position_in(maxLegs, position_id, new_legs_data) ==
    /\ MaxId(option_legs) + Len(new_legs_data) <= maxLegs
    /\ last' = Call("add_legs_to_position", position_id \in DOMAIN positions, "", "")
    /\ IF position_id \in DOMAIN positions
       THEN /\ option_legs' = InsertLegs(option_legs, position_id, new_legs_data)
            /\ positions' = FlushPending(
                   [positions EXCEPT ![position_id].cost_basis =
                       @ + calculate_position_cost_basis(new_legs_data)],
                   pending)
            /\ pending' = <<>>
       ELSE UNCHANGED <<positions, option_legs, pending>>
    /\ UNCHANGED <<cashVars, valVars, pnlVars, deltaVars, calcVars>>

add_legs_to_position(position_id, new_legs_data) ==
    add_legs_to_position_in(MaxLegs, position_id, new_legs_data)

update_leg_current_price(leg_id, new_price) ==
    /\ last' = Call("update_leg_current_price", leg_id \in DOMAIN option_legs, "", "")
    /\ IF leg_id \in DOMAIN option_legs
       THEN /\ option_legs' =
                   [option_legs EXCEPT ![leg_id].current_price_per_unit = Some(new_price)]
            /\ positions' = FlushPending(positions, pending)
            /\ pending' = <<>>
       ELSE UNCHANGED <<positions, option_legs, pending>>
    /\ UNCHANGED <<cashVars, valVars, pnlVars, deltaVars, calcVars>>

update_leg_closing_price(leg_id, closing_price) ==
    /\ last' = Call("update_leg_closing_price", leg_id \in DOMAIN option_legs, "", "")
    /\ IF leg_id \in DOMAIN option_legs
       THEN /\ option_legs' =
                   [option_legs EXCEPT ![leg_id].closing_price_per_unit = Some(closing_price)]
            /\ positions' = FlushPending(positions, pending)
            /\ pending' = <<>>
       ELSE UNCHANGED <<positions, option_legs, pending>>
    /\ UNCHANGED <<cashVars, valVars, pnlVars, deltaVars, calcVars>>

\* delete_position without the cascade of Position.legs: the row goes, its
\* legs stay.
delete_position_noCascade(position_id) ==
    /\ last' = Call("delete_position", position_id \in DOMAIN positions, "", "")
    /\ IF position_id \in DOMAIN positions
       THEN /\ LET flushed == FlushPending(positions, pending)
               IN  positions' = [i \in DOMAIN flushed \ {position_id} |-> flushed[i]]
            /\ pending' = <<>>
            /\ UNCHANGED option_legs
       ELSE UNCHANGED <<positions, option_legs, pending>>
    /\ UNCHANGED <<cashVars, valVars, pnlVars, deltaVars, calcVars>>

\* db.delete(db_position) and the flush: the pending objects are inserted,
\* the row goes and, by the cascade of Position.legs, so do its legs
\* (legs_deleted counts them).
delete_position(position_id) ==
    /\ last' = [Call("delete_position", position_id \in DOMAIN positions, "", "")
                  EXCEPT !.legs_deleted =
                      Cardinality(LegIdsOf(option_legs, position_id))]
    /\ IF position_id \in DOMAIN positions
       THEN /\ LET flushed == FlushPending(positions, pending)
               IN  positions' = [i \in DOMAIN flushed \ {position_id} |-> flushed[i]]
            /\ option_legs' =
                   [i \in DOMAIN option_legs \ LegIdsOf(option_legs, position_id) |->
                       option_legs[i]]
            /\ pending' = <<>>
       ELSE UNCHANGED <<positions, option_legs, pending>>
    /\ UNCHANGED <<cashVars, valVars, pnlVars, deltaVars, calcVars>>

\* The legs table after the loop of lines 243-247: the legs of the position
\* named in the map take the mapped price.
PricesApplied(legs, position_id, leg_current_prices) ==
    [i \in DOMAIN legs |->
        IF legs[i].position_id = position_id /\ i \in DOMAIN leg_current_prices
        THEN [legs[i] EXCEPT !.current_price_per_unit = Some(leg_current_prices[i])]
        ELSE legs[i]]

\* The sum of lines 240-252 over the position's legs.
TotalUnrealized(legs, position_id) ==
    SetSum(LegIdsOf(legs, position_id),
           [i \in DOMAIN legs |-> calculate_unrealized_pnl_for_leg(legs[i])])

update_legs_current_prices_and_unrealized_pnl(position_id, leg_current_prices) ==
    /\ last' = Call("update_legs_current_prices_and_unrealized_pnl",
                    position_id \in DOMAIN positions, "", "")
    /\ IF position_id \notin DOMAIN positions
       THEN UNCHANGED <<positions, option_legs, pending>>
       ELSE IF positions[position_id].status = "CLOSED"
       THEN /\ positions' = FlushPending(
                   [positions EXCEPT ![position_id].unrealized_pnl = 0], pending)
            /\ pending' = <<>>
            /\ UNCHANGED option_legs
       ELSE /\ option_legs' = PricesApplied(option_legs, position_id, leg_current_prices)
            /\ positions' = FlushPending(
                   [positions EXCEPT ![position_id].unrealized_pnl =
                       TotalUnrealized(option_legs', position_id)],
                   pending)
            /\ pending' = <<>>
    /\ UNCHANGED <<cashVars, valVars, pnlVars, deltaVars, calcVars>>

\* The caller's db.rollback() after a ValueError (create_new_position).
session_rollback ==
    /\ pending # <<>>
    /\ pending' = <<>>
    /\ last' = Call("rollback", TRUE, "", "")
    /\ UNCHANGED <<positions, option_legs, cashVars, valVars, pnlVars, deltaVars, calcVars>>

\* The caller's db.commit() on the session: it flushes first.
session_commit ==
    /\ pending # <<>>
    /\ positions' = FlushPending(positions, pending)
    /\ pending' = <<>>
    /\ last' = Call("commit", TRUE, "", "")
    /\ UNCHANGED <<option_legs, cashVars, valVars, pnlVars, deltaVars, calcVars>>

PriceMaps == UNION {[ids -> LegPriceInputs] : ids \in SUBSET (1..MaxLegs)}

\* The ledger balance the session starts from (deposited and committed
\* earlier); no position operation changes it.
StartCash == 7

Init ==
    /\ PosIdle /\ ValIdle /\ PnlIdle /\ DeltaIdle /\ CalcIdle
    /\ cash_setting = Some(StartCash)
    /\ cash_last = NoCall
    /\ txn = [t \in Txns |-> IdleTxn]

Next ==
    \/ \E t \in SpreadTypes, l \in LegsDataInputs, s \in CreateStatuses :
          create_position(t, l, s)
    \/ \E l \in StockLegsDataInputs : create_position_is_stock(l)
    \/ \E id \in 1..MaxPositions, s \in StatusInputs, p \in ClosingPriceInputs :
          update_position_status(id, s, p)
    \/ \E id \in 1..MaxPositions, l \in LegsDataInputs : add_legs_to_position(id, l)
    \/ \E id \in 1..MaxLegs, p \in LegPriceInputs : update_leg_current_price(id, p)
    \/ \E id \in 1..MaxLegs, p \in LegPriceInputs : update_leg_closing_price(id, p)
    \/ \E id \in 1..MaxPositions : delete_position(id)
    \/ \E id \in 1..MaxPositions, m \in PriceMaps :
          update_legs_current_prices_and_unrealized_pnl(id, m)
    \/ session_rollback
    \/ session_commit

Spec == Init /\ [][Next]_vars

(***************************************************************************)
(* SpecTemplates: create_position and add_legs_to_position alone, with     *)
(* room for two positions and three legs.                                  *)
(***************************************************************************)
MaxTemplatePositions == 2

MaxTemplateLegs == 3

NextTemplates ==
    \/ \E t \in SpreadTypes, l \in LegsDataInputs, s \in CreateStatuses :
          create_position_in(MaxTemplatePositions, MaxTemplateLegs, t, l, s)
    \/ \E id \in 1..MaxTemplatePositions, l \in LegsDataInputs :
          add_legs_to_position_in(MaxTemplateLegs, id, l)

SpecTemplates == Init /\ [][NextTemplates]_vars

(***************************************************************************)
(* Portfolio summary, src/src/core/portfolio_manager.py lines 55-121.      *)
(* The three functions only read; each is an operator on the tables as of  *)
(* the last flush (the session does not autoflush before a query).         *)
(***************************************************************************)
\* The legs the loop of lines 67-76 adds up: those of the positions that
\* get_all_positions(status="OPEN") returns and whose spread_type is not
\* "Stock", with a current price.
ValuedLegIds(pos, legs) ==
    {i \in DOMAIN legs :
        /\ legs[i].position_id \in DOMAIN pos
        /\ pos[legs[i].position_id].status = "OPEN"
        /\ pos[legs[i].position_id].spread_type # "Stock"
        /\ ~IsNone(legs[i].current_price_per_unit)}

calculate_total_open_positions_market_value(pos, legs) ==
    SetSum(ValuedLegIds(pos, legs),
           [i \in DOMAIN legs |->
               IF IsNone(legs[i].current_price_per_unit) THEN 0
               ELSE Val(legs[i].current_price_per_unit) * legs[i].quantity
                    * OPTION_MULTIPLIER])

get_overall_portfolio_pnl(pos) ==
    SetSum({p \in DOMAIN pos : pos[p].status = "CLOSED"},
           [p \in DOMAIN pos |-> pos[p].realized_pnl])
    + SetSum({p \in DOMAIN pos : pos[p].status = "OPEN"},
             [p \in DOMAIN pos |-> pos[p].unrealized_pnl])

get_portfolio_summary_data(pos, legs, setting) ==
    LET cash == get_cash_balance(setting)
        open_positions_value == calculate_total_open_positions_market_value(pos, legs)
    IN  [cash_balance |-> cash,
         total_open_positions_market_value |-> open_positions_value,
         total_portfolio_value |-> cash + open_positions_value,
         overall_portfolio_pnl |-> get_overall_portfolio_pnl(pos)]

(***************************************************************************)
(* validate_spread_legs on bounded inputs.                                 *)
(***************************************************************************)
\* Longest list of arbitrary leg dicts passed (four-leg lists are drawn
\* from CondorLegs).
MaxValLegs == 2

ValLabels ==
    {"Bull Call Spread", "bull call spread", "Iron Condor", "My Custom Spread",
     "my custom spread"}

\* Well-typed and None-carrying leg dicts.
ValLegs ==
    [option_type : {<<"str", "CALL">>, <<"str", "PUT">>},
     strike_price : {<<"none", 0>>, <<"num", 100>>, <<"num", 105>>},
     expiry_date : {<<"date", 1>>, <<"date", 2>>},
     quantity : {<<"none", 0>>, <<"num", -1>>, <<"num", 0>>, <<"num", 1>>}]

\* Leg dicts whose option type is in lower case.
LowerCaseLegs ==
    {[option_type |-> <<"str", "call">>, strike_price |-> <<"num", 100>>,
      expiry_date |-> <<"date", 1>>, quantity |-> <<"num", 1>>],
     [option_type |-> <<"str", "call">>, strike_price |-> <<"num", 105>>,
      expiry_date |-> <<"date", 1>>, quantity |-> <<"num", -1>>]}

\* Malformed leg dicts: a key missing, a string or None expiry, a None type.
BadLegs ==
    {[option_type |-> <<"str", "CALL">>, strike_price |-> <<"num", 100>>,
      expiry_date |-> <<"date", 1>>, quantity |-> <<"absent", 0>>],
     [option_type |-> <<"str", "CALL">>, strike_price |-> <<"absent", 0>>,
      expiry_date |-> <<"date", 1>>, quantity |-> <<"num", 1>>],
     [option_type |-> <<"str", "CALL">>, strike_price |-> <<"num", 100>>,
      expiry_date |-> <<"str", 1>>, quantity |-> <<"num", 1>>],
     [option_type |-> <<"str", "CALL">>, strike_price |-> <<"num", 100>>,
      expiry_date |-> <<"none", 0>>, quantity |-> <<"num", 1>>],
     [option_type |-> <<"none", "">>, strike_price |-> <<"num", 100>>,
      expiry_date |-> <<"date", 1>>, quantity |-> <<"num", 1>>]}

\* Legs the four-leg lists are drawn from.
CondorLegs ==
    [option_type : {<<"str", "CALL">>, <<"str", "PUT">>},
     strike_price : {<<"none", 0>>, <<"num", 95>>, <<"num", 105>>},
     expiry_date : {<<"date", 1>>},
     quantity : {<<"none", 0>>, <<"num", -1>>, <<"num", 1>>}]

ValLegsData ==
    UNION {[1..n -> ValLegs \cup LowerCaseLegs \cup BadLegs] : n \in 0..MaxValLegs}
        \cup [1..4 -> CondorLegs]

InitValidate ==
    /\ PosIdle /\ CashIdle /\ PnlIdle /\ DeltaIdle /\ CalcIdle
    /\ v_spread_type \in ValLabels
    /\ v_legs_data \in ValLegsData
    /\ v_result = [exc |-> "none"]

\* One call of validate_spread_legs on the chosen label and legs.
CallValidate ==
    /\ v_result = [exc |-> "none"]
    /\ v_result' = validate_spread_legs(v_spread_type, v_legs_data)
    /\ UNCHANGED <<v_spread_type, v_legs_data, posVars, cashVars, pnlVars, deltaVars, calcVars>>

NextValidate == CallValidate

SpecValidate == InitValidate /\ [][NextValidate]_vars

(***************************************************************************)
(* validate_spread_legs on four-leg lists under the Iron Condor label.     *)
(***************************************************************************)
CondorLabels == {"Iron Condor"}

CondorLeg(t, k, e, q) ==
    [option_type |-> <<"str", t>>, strike_price |-> k,
     expiry_date |-> <<"date", e>>, quantity |-> q]

\* Legs of one expiry on four strikes, long or short one contract; with them
\* the four legs of a condor of two contracts, a zero quantity, a second
\* expiry, a lower-case type, a None strike and a None quantity.
CondorQuadLegs ==
    {CondorLeg(t, <<"num", k>>, 1, <<"num", q>>) :
        t \in {"CALL", "PUT"}, k \in {90, 95, 105, 110}, q \in {-1, 1}}
    \cup {CondorLeg("PUT", <<"num", 90>>, 1, <<"num", 2>>),
          CondorLeg("PUT", <<"num", 95>>, 1, <<"num", -2>>),
          CondorLeg("CALL", <<"num", 105>>, 1, <<"num", -2>>),
          CondorLeg("CALL", <<"num", 110>>, 1, <<"num", 2>>),
          CondorLeg("PUT", <<"num", 90>>, 1, <<"num", 0>>),
          CondorLeg("PUT", <<"num", 90>>, 2, <<"num", 1>>),
          CondorLeg("put", <<"num", 95>>, 1, <<"num", -1>>),
          CondorLeg("PUT", <<"none", 0>>, 1, <<"num", 1>>),
          CondorLeg("CALL", <<"num", 110>>, 1, <<"none", 0>>)}

InitCondor ==
    /\ PosIdle /\ CashIdle /\ PnlIdle /\ DeltaIdle /\ CalcIdle
    /\ v_spread_type \in CondorLabels
    /\ v_legs_data \in [1..4 -> CondorQuadLegs]
    /\ v_result = [exc |-> "none"]

NextCondor == CallValidate

SpecCondor == InitCondor /\ [][NextCondor]_vars

(***************************************************************************)
(* SpecRealized: calculate_realized_pnl_for_position applied to a Position *)
(* object and its legs, src/src/core/pnl_calculator.py lines 78-149.       *)
(***************************************************************************)
\* Longest position.legs list of an input.
MaxPnlLegs == 2

PositionStatuses == {"OPEN", "CLOSED", "ROLLED", "EXPIRED"}

\* Position objects: the columns the function reads, and status.
PnlPositions ==
    [closing_price : {None, Some(350), Some(0)},
     cost_basis : {100, -200},
     is_stock_position : BOOLEAN,
     status : PositionStatuses]

\* OptionLeg objects: long, short and empty legs, closed at a price or not.
PnlLegs ==
    [option_type : {"CALL", "STOCK"},
     quantity : {-1, 0, 2},
     entry_price_per_unit : {2},
     closing_price_per_unit : {None, Some(3), Some(1)}]

InitRealized ==
    /\ PosIdle /\ CashIdle /\ ValIdle /\ DeltaIdle /\ CalcIdle
    /\ pnl_position \in PnlPositions
    /\ pnl_legs \in UNION {[1..n -> PnlLegs] : n \in 0..MaxPnlLegs}
    /\ pnl_result = None

\* One call of calculate_realized_pnl_for_position(pnl_position).
CallRealized ==
    /\ pnl_result = None
    /\ pnl_result' = Some(calculate_realized_pnl_for_position(pnl_position, pnl_legs))
    /\ UNCHANGED <<pnl_position, pnl_legs, posVars, cashVars, valVars, deltaVars, calcVars>>

NextRealized == CallRealized

SpecRealized == InitRealized /\ [][NextRealized]_vars

(***************************************************************************)
(* SpecDelta: calculate_position_delta, src/src/core/derivatives_calculator *)
(* .py lines 46-165, as far as the underlying price it settles on.  The    *)
(* Black-Scholes sum of lines 140-165 is a function of that price and of   *)
(* the legs; the outcome records the price it is computed at.              *)
(***************************************************************************)
Symbols == {"AAPL", "SPY"}

\* str.split(" ")[0] of the strategy labels used.
FirstWord(s) ==
    CASE s = "AAPL Bull Call Spread" -> "AAPL"
      [] s = "SPY Iron Condor" -> "SPY"
      [] s = "Bull Call Spread" -> "Bull"
      [] OTHER -> s

DeltaLabels == {"AAPL Bull Call Spread", "SPY Iron Condor", "Bull Call Spread", ""}

\* Position objects: spread_type, the underlying_symbol column (nullable)
\* and whether position.legs is non-empty.
DeltaPositions ==
    [spread_type : DeltaLabels,
     underlying_symbol : {None} \cup {Some(y) : y \in Symbols},
     has_legs : BOOLEAN]

OverridePrice == 150

QuotePrice == 102

\* underlying_prices_override: None, or a dict {symbol: price}, the empty
\* dict included.
OverrideInputs ==
    {None} \cup {Some([y \in keys |-> OverridePrice]) : keys \in SUBSET (Symbols \cup {"Bull"})}

\* What price_fetcher.get_stock_quote answers: a quote, or an exception.
QuoteOutcomes == {Some(QuotePrice), None}

\* The outcome of a call: the symbols get_stock_quote was called with, in
\* order, and "zero" for a return of 0.0 before any leg is looked at or
\* "sum" for the sum of leg deltas computed at price.
DeltaOut(ret, fetched, price) == [ret |-> ret, fetched |-> fetched, price |-> price]

\* Line 115: position.spread_type.split(" ")[0] if position.spread_type
\* else None.
inferred_symbol(position) ==
    IF position.spread_type # "" THEN Some(FirstWord(position.spread_type)) ELSE None

\* Lines 71-138, then the sum of lines 140-165.
calculate_position_delta(position, overrides, quote) ==
    LET sym == inferred_symbol(position)
        truthy == ~IsNone(overrides) /\ DOMAIN Val(overrides) # {}
    IN  IF ~position.has_legs THEN DeltaOut("zero", <<>>, None)
        ELSE IF IsNone(sym) /\ ~truthy THEN DeltaOut("zero", <<>>, None)
        ELSE IF truthy /\ ~IsNone(sym) /\ Val(sym) \in DOMAIN Val(overrides)
        THEN DeltaOut("sum", <<>>, Some(Val(overrides)[Val(sym)]))
        ELSE IF ~IsNone(sym)
        THEN IF IsNone(quote) THEN DeltaOut("zero", <<Val(sym)>>, None)
             ELSE DeltaOut("sum", <<Val(sym)>>, quote)
        ELSE DeltaOut("zero", <<>>, None)

InitDelta ==
    /\ PosIdle /\ CashIdle /\ ValIdle /\ PnlIdle /\ CalcIdle
    /\ delta_position \in DeltaPositions
    /\ delta_overrides \in OverrideInputs
    /\ delta_out = [ret |-> "none"]

\* One call of calculate_position_delta; the live price source answers with
\* a quote or fails.
CallDelta ==
    /\ delta_out.ret = "none"
    /\ \E quote \in QuoteOutcomes :
          delta_out' = calculate_position_delta(delta_position, delta_overrides, quote)
    /\ UNCHANGED <<delta_position, delta_overrides, posVars, cashVars, valVars, pnlVars, calcVars>>

NextDelta == CallDelta

SpecDelta == InitDelta /\ [][NextDelta]_vars

(***************************************************************************)
(* Black-Scholes model, src/src/financial_models/black_scholes.py          *)
(*                                                                         *)
(* Numbers a function returns outside the closed-form formula are kept in  *)
(* thousandths (0.5 is 500).  The closed-form value itself, a real number  *)
(* built from log, sqrt and the normal distribution, is not computed: the  *)
(* outcome records that the formula was evaluated, or the exception its    *)
(* evaluation raises.  sigma is in hundredths, T in years.                 *)
(***************************************************************************)
\* The function returned the number v (in thousandths).
Num(v) == [exc |-> "", form |-> "value", value |-> v]

\* The function returned the value of its closed-form formula.
Closed == [exc |-> "", form |-> "closed", value |-> 0]

\* The function raised exception e.
Raised(e) == [exc |-> e, form |-> "", value |-> 0]

\* d1, lines 27-29: the exception its evaluation raises, "" if none.  For
\* T > 0 it computes math.log(S / K) and divides by sigma * math.sqrt(T).
d1(S, K, T, sigma) ==
    IF T <= 0 THEN ""
    ELSE IF K = 0 THEN "ZeroDivisionError"
    ELSE IF S = 0 \/ ((S < 0) # (K < 0)) THEN "ValueError"
    ELSE IF sigma = 0 THEN "ZeroDivisionError"
    ELSE ""

\* d2, lines 36-38: it calls d1.
d2(S, K, T, sigma) == d1(S, K, T, sigma)

\* The value of a closed-form formula that evaluates d1 or d2 first.
AfterD(exc) == IF exc = "" THEN Closed ELSE Raised(exc)

delta_call(S, K, T, sigma) ==
    IF T <= 0 \/ sigma <= 0
    THEN Num(IF S > K THEN 1000 ELSE IF S < K THEN 0 ELSE 500)
    ELSE AfterD(d1(S, K, T, sigma))

delta_put(S, K, T, sigma) ==
    IF T <= 0 \/ sigma <= 0
    THEN Num(IF S < K THEN -1000 ELSE IF S > K THEN 0 ELSE -500)
    ELSE AfterD(d1(S, K, T, sigma))

gamma(S, K, T, sigma) ==
    IF T <= 0 \/ sigma <= 0 \/ S <= 0 THEN Num(0)
    ELSE AfterD(d1(S, K, T, sigma))

vega(S, K, T, sigma) ==
    IF T <= 0 \/ sigma <= 0 \/ S <= 0 THEN Num(0)
    ELSE AfterD(d1(S, K, T, sigma))

theta_call(S, K, T, sigma) ==
    IF T <= 0 \/ sigma <= 0 \/ S <= 0 THEN Num(0)
    ELSE AfterD(d1(S, K, T, sigma))

theta_put(S, K, T, sigma) ==
    IF T <= 0 \/ sigma <= 0 \/ S <= 0 THEN Num(0)
    ELSE AfterD(d1(S, K, T, sigma))

rho_call(S, K, T, sigma) ==
    IF T <= 0 \/ sigma <= 0 THEN Num(0)
    ELSE AfterD(d2(S, K, T, sigma))

rho_put(S, K, T, sigma) ==
    IF T <= 0 \/ sigma <= 0 THEN Num(0)
    ELSE AfterD(d2(S, K, T, sigma))

(***************************************************************************)
(* SpecLegDelta: calculate_leg_delta, derivatives_calculator.py 20-43.     *)
(***************************************************************************)
LegDeltaInputs ==
    [option_type : {"CALL", "call", "PUT", "put", "STOCK", ""},
     underlying_price : {95, 100, 105},
     strike_price : {100},
     time_to_expiry_years : {-1, 0, 1},
     volatility : {0, 20}]

calculate_leg_delta(option_type, underlying_price, strike_price, time_to_expiry_years, volatility) ==
    IF time_to_expiry_years <= 0
    THEN IF Upper(option_type) = "CALL"
         THEN Num(IF underlying_price > strike_price THEN 1000
                  ELSE IF underlying_price < strike_price THEN 0 ELSE 500)
         ELSE IF Upper(option_type) = "PUT"
         THEN Num(IF underlying_price < strike_price THEN -1000
                  ELSE IF underlying_price > strike_price THEN 0 ELSE -500)
         ELSE Num(0)
    ELSE IF Upper(option_type) = "CALL"
    THEN delta_call(underlying_price, strike_price, time_to_expiry_years, volatility)
    ELSE IF Upper(option_type) = "PUT"
    THEN delta_put(underlying_price, strike_price, time_to_expiry_years, volatility)
    ELSE Raised("ValueError")

InitLegDelta ==
    /\ PosIdle /\ CashIdle /\ ValIdle /\ PnlIdle /\ DeltaIdle
    /\ calc_args \in LegDeltaInputs
    /\ calc_out = [exc |-> "none"]

\* One call of calculate_leg_delta on the chosen arguments.
CallLegDelta ==
    /\ calc_out.exc = "none"
    /\ calc_out' = calculate_leg_delta(calc_args.option_type, calc_args.underlying_price,
                                       calc_args.strike_price,
                                       calc_args.time_to_expiry_years,
                                       calc_args.volatility)
    /\ UNCHANGED <<calc_args, posVars, cashVars, valVars, pnlVars, deltaVars>>

NextLegDelta == CallLegDelta

SpecLegDelta == InitLegDelta /\ [][NextLegDelta]_vars

(***************************************************************************)
(* SpecGreeks: the eight Greeks of black_scholes.py lines 72-172.          *)
(***************************************************************************)
GreekNames == {"delta_call", "delta_put", "gamma", "vega",
               "theta_call", "theta_put", "rho_call", "rho_put"}

\* Spot prices below, at and above the strike, zero and negative; expired,
\* expiring and live options; negative, zero and positive volatility.
GreekInputs ==
    [fn : GreekNames,
     S : {-5, 0, 95, 100, 105},
     K : {100},
     T : {-1, 0, 1},
     sigma : {-10, 0, 20}]

\* The function named fn applied to (S, K, T, r, sigma).
Greek(fn, S, K, T, sigma) ==
    CASE fn = "delta_call" -> delta_call(S, K, T, sigma)
      [] fn = "delta_put" -> delta_put(S, K, T, sigma)
      [] fn = "gamma" -> gamma(S, K, T, sigma)
      [] fn = "vega" -> vega(S, K, T, sigma)
      [] fn = "theta_call" -> theta_call(S, K, T, sigma)
      [] fn = "theta_put" -> theta_put(S, K, T, sigma)
      [] fn = "rho_call" -> rho_call(S, K, T, sigma)
      [] fn = "rho_put" -> rho_put(S, K, T, sigma)

InitGreeks ==
    /\ PosIdle /\ CashIdle /\ ValIdle /\ PnlIdle /\ DeltaIdle
    /\ calc_args \in GreekInputs
    /\ calc_out = [exc |-> "none"]

\* One call of the chosen Greek.
CallGreek ==
    /\ calc_out.exc = "none"
    /\ calc_out' = Greek(calc_args.fn, calc_args.S, calc_args.K, calc_args.T,
                         calc_args.sigma)
    /\ UNCHANGED <<calc_args, posVars, cashVars, valVars, pnlVars, deltaVars>>

NextGreeks == CallGreek

SpecGreeks == InitGreeks /\ [][NextGreeks]_vars

(***************************************************************************)
(* SpecParity: black_scholes_call_price and black_scholes_put_price,       *)
(* black_scholes.py lines 40-68, on one set of arguments.                  *)
(*                                                                         *)
(* Prices are in millionths.  r is in hundredths; math.exp(-r * T) and the *)
(* values of the normal distribution function N are in thousandths.  What  *)
(* N gives at d1 and at d2 is chosen freely; N(-x) is 1 - N(x).            *)
(***************************************************************************)
\* math.exp(-r * T), in thousandths, for the rates and times used.
ExpNeg(r, T) ==
    CASE r * T = 0 -> 1000
      [] r * T = 5 -> 951

Max0(x) == IF x > 0 THEN x ELSE 0

\* Values of N(x), in thousandths.
NValues == {159, 500, 841}

\* N(-x), given N(x).
NNeg(n) == 1000 - n

black_scholes_call_price(S, K, T, r, sigma, n1, n2) ==
    IF T <= 0 THEN Max0(S - K) * 1000000
    ELSE IF sigma <= 0 THEN Max0(S * ExpNeg(r, T) - K * ExpNeg(r, T)) * 1000
    ELSE S * n1 * 1000 - K * ExpNeg(r, T) * n2

black_scholes_put_price(S, K, T, r, sigma, n1, n2) ==
    IF T <= 0 THEN Max0(K - S) * 1000000
    ELSE IF sigma <= 0 THEN Max0(K * ExpNeg(r, T) - S * ExpNeg(r, T)) * 1000
    ELSE K * ExpNeg(r, T) * NNeg(n2) - S * NNeg(n1) * 1000

\* Valid inputs: S > 0, K > 0, T >= 0, sigma >= 0.
ParityInputs ==
    [S : {95, 100, 105, 110},
     K : {100, 110},
     T : {0, 1},
     r : {0, 5},
     sigma : {0, 20}]

InitParity ==
    /\ PosIdle /\ CashIdle /\ ValIdle /\ PnlIdle /\ DeltaIdle
    /\ calc_args \in ParityInputs
    /\ calc_out = [exc |-> "none"]

\* Both prices computed on the chosen arguments.
CallPrices ==
    /\ calc_out.exc = "none"
    /\ \E n1 \in NValues, n2 \in NValues :
          calc_out' =
            [exc |-> "",
             call |-> black_scholes_call_price(calc_args.S, calc_args.K, calc_args.T,
                                               calc_args.r, calc_args.sigma, n1, n2),
             put |-> black_scholes_put_price(calc_args.S, calc_args.K, calc_args.T,
                                             calc_args.r, calc_args.sigma, n1, n2)]
    /\ UNCHANGED <<calc_args, posVars, cashVars, valVars, pnlVars, deltaVars>>

NextParity == CallPrices

SpecParity == InitParity /\ [][NextParity]_vars

(***************************************************************************)
(* SpecProfitFactor: calculate_profit_factor, src/src/core/analytics_engine *)
(* .py lines 37-55.  The float it returns is kept as a fraction num / den  *)
(* (0.0 is 0 / 1), or as float('inf').                                     *)
(***************************************************************************)
\* Longest list of realized P&L values of an input.
MaxPnls == 3

PnlValues == {-200, -50, 0, 100, 250}

PnlLists == UNION {[1..n -> PnlValues] : n \in 0..MaxPnls}

Fraction(num, den) == [exc |-> "", inf |-> FALSE, num |-> num, den |-> den]

Infinity == [exc |-> "", inf |-> TRUE, num |-> 0, den |-> 1]

Abs(x) == IF x < 0 THEN -x ELSE x

\* A variant that divides by the gross loss itself, not by its absolute
\* value.
calculate_profit_factor_signedLoss(pnls) ==
    LET gross_profit == SeqSum([i \in 1..Len(pnls) |-> IF pnls[i] > 0 THEN pnls[i] ELSE 0])
        gross_loss == SeqSum([i \in 1..Len(pnls) |-> IF pnls[i] < 0 THEN pnls[i] ELSE 0])
    IN  IF Len(pnls) = 0 THEN Fraction(0, 1)
        ELSE IF gross_loss = 0
        THEN IF gross_profit > 0 THEN Infinity ELSE Fraction(0, 1)
        ELSE Fraction(-gross_profit, Abs(gross_loss))

calculate_profit_factor(pnls) ==
    LET gross_profit == SeqSum([i \in 1..Len(pnls) |-> IF pnls[i] > 0 THEN pnls[i] ELSE 0])
        gross_loss == SeqSum([i \in 1..Len(pnls) |-> IF pnls[i] < 0 THEN pnls[i] ELSE 0])
    IN  IF Len(pnls) = 0 THEN Fraction(0, 1)
        ELSE IF gross_loss = 0
        THEN IF gross_profit > 0 THEN Infinity ELSE Fraction(0, 1)
        ELSE Fraction(gross_profit, Abs(gross_loss))

InitProfitFactor ==
    /\ PosIdle /\ CashIdle /\ ValIdle /\ PnlIdle /\ DeltaIdle
    /\ calc_args \in PnlLists
    /\ calc_out = [exc |-> "none"]

\* One call of calculate_profit_factor on the chosen list.
CallProfitFactor ==
    /\ calc_out.exc = "none"
    /\ calc_out' = calculate_profit_factor(calc_args)
    /\ UNCHANGED <<calc_args, posVars, cashVars, valVars, pnlVars, deltaVars>>

NextProfitFactor == CallProfitFactor

SpecProfitFactor == InitProfitFactor /\ [][NextProfitFactor]_vars

(***************************************************************************)
(* Properties                                                              *)
(***************************************************************************)
OptionCostOfLegs(legs, pid) ==
    OPTION_MULTIPLIER *
        SetSum(LegIdsOf(legs, pid),
               [i \in DOMAIN legs |-> legs[i].quantity * legs[i].entry_price_per_unit])

\* C1: in every reachable state of a Position, unrealized_pnl is 0 whenever
\* the status is not OPEN.
C1_UnrealizedZeroUnlessOpen ==
    \A id \in DOMAIN positions :
        positions[id].status # "OPEN" => positions[id].unrealized_pnl = 0

\* C2: the cash balance is never negative; a deposit of amount a adds exactly
\* a, and a withdrawal of amount a is accepted exactly when a <= the current
\* balance and then subtracts exactly a (amounts a >= 0).
C2_CashNeverNegative ==
    /\ get_cash_balance(cash_setting) >= 0
    /\ (cash_last.exc # "none" /\ cash_last.amount >= 0) =>
          LET b == get_cash_balance(cash_last.before)
              a == cash_last.amount
          IN  /\ cash_last.is_deposit =>
                    (cash_last.exc = "" /\ cash_setting = Some(b + a))
              /\ ~cash_last.is_deposit =>
                    /\ cash_last.exc = "" <=> a <= b
                    /\ cash_last.exc = "" => cash_setting = Some(b - a)

\* C2 witness: a withdrawal of the whole (positive) balance was accepted and
\* left 0.
C2_Witness ==
    /\ cash_last.exc = "" /\ ~cash_last.is_deposit
    /\ cash_last.amount > 0
    /\ cash_last.before = Some(cash_last.amount)
    /\ cash_setting = Some(0)

\* C3: for every option Position, cost_basis equals 100 x the sum over the
\* legs it owns of quantity x entry_price_per_unit.
C3_CostBasisIsLegSum ==
    \A id \in DOMAIN positions :
        ~positions[id].is_stock_position =>
            positions[id].cost_basis = OptionCostOfLegs(option_legs, id)

\* C4: update_position_status(id, CLOSED, p) on an OPEN position leaves it
\* CLOSED, with closing_price = p when p is given, realized_pnl the realized
\* P&L calculator's result on the position as it then stands (closing_price -
\* cost_basis when a closing price is set) and unrealized_pnl = 0.
C4_CloseFromOpen ==
    [][\A id \in 1..MaxPositions, p \in ClosingPriceInputs, s \in {"CLOSED", "closed"} :
          (/\ id \in DOMAIN positions
           /\ positions[id].status = "OPEN"
           /\ update_position_status(id, s, p))
          => LET q == positions'[id]
             IN  /\ q.status = "CLOSED"
                 /\ ~IsNone(p) => q.closing_price = p
                 /\ q.realized_pnl =
                       calculate_realized_pnl_for_position(q, OwnedLegs(option_legs', id))
                 /\ ~IsNone(q.closing_price) =>
                       q.realized_pnl = Val(q.closing_price) - q.cost_basis
                 /\ q.unrealized_pnl = 0]_vars

\* C4 witness: a position that had unrealized P&L while OPEN has been closed
\* at a given price.
C4_Witness ==
    /\ last.op = "update_position_status" /\ last.found
    /\ last.original_status = "OPEN"
    /\ \E id \in DOMAIN positions :
          /\ positions[id].status = "CLOSED"
          /\ positions[id].closing_price = Some(350)
          /\ positions[id].cost_basis = 100
          /\ positions[id].realized_pnl = 250
          /\ \E i \in LegIdsOf(option_legs, id) :
                ~IsNone(option_legs[i].current_price_per_unit)

\* C5: reopening (CLOSED to OPEN) sets realized_pnl to 0 and closing_price to
\* none and leaves unrealized_pnl, cost_basis and every leg unchanged; the
\* unrealized_pnl of a position that stays OPEN changes only in a call of
\* update_legs_current_prices_and_unrealized_pnl.
C5_Reopen ==
    [][/\ \A id \in 1..MaxPositions, p \in ClosingPriceInputs, s \in {"OPEN", "open"} :
             (/\ id \in DOMAIN positions
              /\ positions[id].status = "CLOSED"
              /\ update_position_status(id, s, p))
             => /\ positions'[id].status = "OPEN"
                /\ positions'[id].realized_pnl = 0
                /\ positions'[id].closing_price = None
                /\ positions'[id].unrealized_pnl = positions[id].unrealized_pnl
                /\ positions'[id].cost_basis = positions[id].cost_basis
                /\ option_legs' = option_legs
       /\ \A id \in DOMAIN positions \cap DOMAIN positions' :
             (/\ positions[id].status = "OPEN"
              /\ positions'[id].status = "OPEN"
              /\ positions'[id].unrealized_pnl # positions[id].unrealized_pnl)
             => last'.op = "update_legs_current_prices_and_unrealized_pnl"]_vars

\* C5 witness: a position closed at a price, whose leg has a current price
\* that gives it a P&L, has just been reopened; unrealized_pnl is still 0.
C5_Witness ==
    /\ last.op = "update_position_status" /\ last.found
    /\ last.original_status = "CLOSED"
    /\ \E id \in DOMAIN positions :
          /\ positions[id].status = "OPEN"
          /\ positions[id].unrealized_pnl = 0
          /\ positions[id].realized_pnl = 0
          /\ TotalUnrealized(option_legs, id) # 0

\* C6: setting the status to ROLLED or EXPIRED has the same effect as setting
\* it to CLOSED: the closing price is stored if given, realized_pnl is
\* computed by the realized P&L calculator, and unrealized_pnl is zeroed.
C6_RolledExpiredCloseLikeClosed ==
    [][\A id \in 1..MaxPositions, p \in ClosingPriceInputs, s \in {"ROLLED", "EXPIRED"} :
          (/\ id \in DOMAIN positions
           /\ update_position_status(id, s, p))
          => LET q == positions'[id]
             IN  /\ q.status = s
                 /\ ~IsNone(p) => q.closing_price = p
                 /\ q.realized_pnl =
                       calculate_realized_pnl_for_position(q, OwnedLegs(option_legs', id))
                 /\ q.unrealized_pnl = 0]_vars

\* The signed change a call makes to the balance it read (lines 34-40).
Delta(t) == IF t.is_deposit THEN t.amount ELSE -t.amount

\* C7: when two update_cash_balance calls both read the balance before
\* either writes it back, the final balance is what the later writer computed
\* from the balance both read: only one of the two updates is reflected.
C7_LostUpdate ==
    \A p \in Txns, q \in Txns :
        (/\ p # q
         /\ txn[p].pc = "done" /\ txn[q].pc = "done"
         /\ txn[p].seenWrites = 0 /\ txn[q].seenWrites = 0
         /\ txn[q].wrote = 2)
        => /\ txn[p].current_balance = txn[q].current_balance
           /\ cash_setting = Some(txn[q].current_balance + Delta(txn[q]))

\* C7 witness: both calls read before either wrote, both wrote, and the
\* stored balance differs from the balance with both updates applied.
C7_Witness ==
    \E p \in Txns, q \in Txns :
        /\ p # q
        /\ txn[p].pc = "done" /\ txn[q].pc = "done"
        /\ txn[p].seenWrites = 0 /\ txn[q].seenWrites = 0
        /\ txn[p].amount > 0 /\ txn[q].amount > 0
        /\ cash_setting #
              Some(txn[p].current_balance + Delta(txn[p]) + Delta(txn[q]))

\* C8: a rejected update_cash_balance call (an overdrawing withdrawal or a
\* negative amount) raises a value error and leaves the ledger as it was: the
\* stored balance is unchanged and no entry is created or modified.
C8_RejectedLeavesLedger ==
    /\ cash_last.exc = "ValueError" => cash_setting = cash_last.before
    /\ (cash_last.exc # "none"
        /\ (cash_last.amount < 0
            \/ (~cash_last.is_deposit
                /\ cash_last.amount > get_cash_balance(cash_last.before))))
       => cash_last.exc = "ValueError"

\* C8 witness: a withdrawal from an absent ledger entry was rejected and
\* there is still no entry.
C8_Witness ==
    /\ cash_last.exc = "ValueError"
    /\ ~cash_last.is_deposit /\ cash_last.amount > 0
    /\ cash_last.before = None
    /\ cash_setting = None

\* C9: when validate_spread_legs returns false, create_position raises a
\* rejected-creation error carrying the validator's message and leaves
\* nothing of the rejected call in the session or the store.
C9_RejectedCreateLeavesNothing ==
    [][\A t \in SpreadTypes, l \in LegsDataInputs, s \in CreateStatuses :
          (/\ ~validate_spread_legs(t, LegDicts(l)).valid
           /\ create_position(t, l, s))
          => /\ last'.exc = "ValueError"
             /\ last'.msg = validate_spread_legs(t, LegDicts(l)).msg
             /\ pending' = pending
             /\ positions' = positions
             /\ option_legs' = option_legs]_vars

\* C10: validate_spread_legs never raises: for every label and every list of
\* leg dicts it returns a (bool, message) pair.
C10_ValidatorNeverRaises == v_result.exc \in {"none", ""}

\* The Bull Call Spread template in the words of the specification: two
\* legs, both CALL, one long and one short, one expiry, long strike below
\* short strike.
IsCallLeg(l) == l.option_type[1] = "str" /\ Upper(l.option_type[2]) = "CALL"

IsLong(l) == l.quantity[1] = "num" /\ l.quantity[2] > 0

IsShort(l) == l.quantity[1] = "num" /\ l.quantity[2] < 0

IsBullCallSpread(legs_data) ==
    /\ Len(legs_data) = 2
    /\ \A i \in 1..2 : IsCallLeg(legs_data[i])
    /\ \E i \in 1..2 :
          LET long == legs_data[i]
              short == legs_data[3 - i]
          IN  /\ IsLong(long) /\ IsShort(short)
              /\ long.expiry_date[1] = "date"
              /\ long.expiry_date = short.expiry_date
              /\ long.strike_price[1] = "num" /\ short.strike_price[1] = "num"
              /\ long.strike_price[2] < short.strike_price[2]

\* C11: for the label Bull Call Spread, validate_spread_legs returns true
\* exactly when the legs are two CALLs, one long and one short, with the same
\* expiry and the long strike strictly below the short strike; in every
\* other case it returns false.
C11_BullCallSpreadExactly ==
    (v_result.exc # "none" /\ Upper(v_spread_type) = "BULL CALL SPREAD")
        => /\ v_result.exc = ""
           /\ v_result.valid = IsBullCallSpread(v_legs_data)

\* The Iron Condor template in the words of the specification: four legs of
\* one expiry, a long put below a short put below a short call below a long
\* call, all of the same absolute quantity.
IsPutLeg(l) == l.option_type[1] = "str" /\ Upper(l.option_type[2]) = "PUT"

AbsQuantity(l) == IF l.quantity[2] < 0 THEN -l.quantity[2] ELSE l.quantity[2]

IsIronCondor(legs_data) ==
    /\ Len(legs_data) = 4
    /\ \A i \in 1..4 :
          /\ legs_data[i].expiry_date[1] = "date"
          /\ legs_data[i].expiry_date = legs_data[1].expiry_date
    /\ \E lp, sp, sc, lc \in 1..4 :
          /\ Cardinality({lp, sp, sc, lc}) = 4
          /\ IsPutLeg(legs_data[lp]) /\ IsPutLeg(legs_data[sp])
          /\ IsCallLeg(legs_data[sc]) /\ IsCallLeg(legs_data[lc])
          /\ IsLong(legs_data[lp]) /\ IsShort(legs_data[sp])
          /\ IsShort(legs_data[sc]) /\ IsLong(legs_data[lc])
          /\ \A i \in 1..4 : AbsQuantity(legs_data[i]) = AbsQuantity(legs_data[lp])
          /\ \A i \in 1..4 : legs_data[i].strike_price[1] = "num"
          /\ legs_data[lp].strike_price[2] < legs_data[sp].strike_price[2]
          /\ legs_data[sp].strike_price[2] < legs_data[sc].strike_price[2]
          /\ legs_data[sc].strike_price[2] < legs_data[lc].strike_price[2]

\* C12: for the label Iron Condor, validate_spread_legs returns true exactly
\* when the legs are four of one expiry, two PUTs and two CALLs, the
\* lower-strike put long and the higher short, the lower-strike call short
\* and the higher long, all of the same absolute quantity, with strikes
\* strictly ordered; in every other case it returns false.
C12_IronCondorExactly ==
    (v_result.exc # "none" /\ Upper(v_spread_type) = "IRON CONDOR")
        => /\ v_result.exc = ""
           /\ v_result.valid = IsIronCondor(v_legs_data)

\* A leg that lacks a required key or whose expiry is not a date.
IsMalformedLeg(leg_d) == ~HasRequiredKeys(leg_d) \/ leg_d.expiry_date[1] # "date"

HasMalformedLeg(legs_data) == \E i \in 1..Len(legs_data) : IsMalformedLeg(legs_data[i])

KeyCheckMessages ==
    {"Leg {} data is missing one or more required keys (option_type, strike_price, expiry_date, quantity).",
     "Leg {} expiry_date must be a datetime.date object."}

\* C13 (as stated): a leg lacking a required key or carrying a non-date
\* expiry yields (false, message) whatever the strategy label is.
C13_MalformedLegRejectedWhateverLabel ==
    (v_result.exc # "none" /\ HasMalformedLeg(v_legs_data))
        => /\ v_result.exc = ""
           /\ ~v_result.valid
           /\ v_result.msg \in KeyCheckMessages

\* C13 (amended): under a label that is a registered template after
\* upper-casing, a leg lacking a required key or carrying a non-date expiry
\* yields (false, message) before the template's checker sees the legs;
\* under any other label the legs are not looked at and the call returns
\* true.
C13_MalformedLegRejectedForTemplates ==
    (v_result.exc # "none" /\ HasMalformedLeg(v_legs_data))
        => /\ v_result.exc = ""
           /\ Upper(v_spread_type) \in SPREAD_VALIDATORS
                 => ~v_result.valid /\ v_result.msg \in KeyCheckMessages
           /\ Upper(v_spread_type) \notin SPREAD_VALIDATORS => v_result.valid

\* C13 witness: under a template's label, a list holding a leg with a string
\* expiry next to a leg with a None quantity was rejected by the key check.
C13_Witness ==
    /\ Upper(v_spread_type) = "BULL CALL SPREAD"
    /\ Len(v_legs_data) = 2
    /\ v_legs_data[1].quantity[1] = "none"
    /\ v_legs_data[2].expiry_date[1] = "str"
    /\ v_result.exc = "" /\ ~v_result.valid
    /\ v_result.msg = "Leg {} expiry_date must be a datetime.date object."
    /\ v_result.leg = 2

\* Two outcomes of validate_spread_legs that agree up to the letter case of
\* the label quoted in the message.
SameOutcome(a, b) ==
    /\ a.exc = b.exc /\ a.valid = b.valid /\ a.msg = b.msg /\ a.leg = b.leg
    /\ Upper(a.label) = Upper(b.label)

\* C14: dispatch is by the upper-cased label: labels that differ only in
\* letter case get the same result for the same legs, and a label that is no
\* registered template after upper-casing is accepted (true) whatever
\* well-formed legs are passed.
C14_DispatchByUpperCasedLabel ==
    v_result.exc # "none"
        => /\ \A other \in ValLabels :
                 Upper(other) = Upper(v_spread_type)
                     => SameOutcome(validate_spread_legs(other, v_legs_data), v_result)
           /\ (Upper(v_spread_type) \notin SPREAD_VALIDATORS
               /\ ~HasMalformedLeg(v_legs_data))
                 => v_result.exc = "" /\ v_result.valid

\* C14 witness: the lower-case label of a template has rejected two legs
\* with the template's own message.
C14_Witness ==
    /\ v_spread_type = "bull call spread"
    /\ Len(v_legs_data) = 2
    /\ v_result.exc = "" /\ ~v_result.valid
    /\ v_result.msg = "Bull Call Spread requires one long call and one short call."

\* What the realized P&L of a position with these legs is to be: the
\* position's closing price less its cost basis when it has one; otherwise,
\* for a stock position, the first leg's (closing - entry) x quantity, and for
\* an option position the sum over the legs that have a closing price of
\* (closing - entry) x quantity x 100.  The status is not read.
RealizedPnlOf(position, legs) ==
    IF ~IsNone(position.closing_price)
    THEN Val(position.closing_price) - position.cost_basis
    ELSE IF Len(legs) = 0 THEN 0
    ELSE IF position.is_stock_position
    THEN IF IsNone(legs[1].closing_price_per_unit) THEN 0
         ELSE (Val(legs[1].closing_price_per_unit) - legs[1].entry_price_per_unit)
              * legs[1].quantity * 1
    ELSE SeqSum([i \in 1..Len(legs) |->
                    IF IsNone(legs[i].closing_price_per_unit) THEN 0
                    ELSE (Val(legs[i].closing_price_per_unit)
                            - legs[i].entry_price_per_unit)
                         * legs[i].quantity * 100])

\* C15: calculate_realized_pnl_for_position returns closing_price - cost_basis
\* when the position's closing_price is set, whatever the legs' closing prices
\* are; otherwise for a stock position (closing - entry) x quantity x 1 of the
\* first leg (0 if it has no closing price) and for an option position the sum
\* of (closing - entry) x quantity x 100 over only the legs with a closing
\* price; 0 with no closing price and no legs.  The same position under any
\* other status gives the same result.
C15_RealizedTwoMethodsInOrder ==
    ~IsNone(pnl_result) =>
        /\ Val(pnl_result) = RealizedPnlOf(pnl_position, pnl_legs)
        /\ \A st \in PositionStatuses :
              calculate_realized_pnl_for_position(
                  [pnl_position EXCEPT !.status = st], pnl_legs) = Val(pnl_result)

\* A position that is not CLOSED, with a closing price of its own and a leg
\* closed at a profit: the result is the position-level figure alone.
C15_Witness ==
    /\ ~IsNone(pnl_result)
    /\ pnl_position.status = "OPEN"
    /\ pnl_position.closing_price = Some(350)
    /\ pnl_position.cost_basis = 100
    /\ Len(pnl_legs) = 2
    /\ pnl_legs[1].closing_price_per_unit = Some(3)
    /\ pnl_legs[1].quantity = 2
    /\ IsNone(pnl_legs[2].closing_price_per_unit)
    /\ Val(pnl_result) = 250

\* The multiplier the unrealized P&L of a leg is to use.
LegMultiplier(leg) == IF leg.option_type = "STOCK" THEN 1 ELSE 100

\* (current - entry) x quantity x multiplier, 0 for a leg with no current price.
LegUnrealizedOf(leg) ==
    IF IsNone(leg.current_price_per_unit) THEN 0
    ELSE (Val(leg.current_price_per_unit) - leg.entry_price_per_unit)
         * leg.quantity * LegMultiplier(leg)

\* C16: update_legs_current_prices_and_unrealized_pnl on an OPEN position
\* sets current_price_per_unit of exactly the position's legs named in the
\* map, leaves every other leg's price as it was, and stores unrealized_pnl =
\* the sum over the position's legs of (current - entry) x quantity x
\* multiplier (1 for STOCK legs, 100 otherwise), a leg with no current price
\* contributing 0.
C16_PricesAppliedAndSummed ==
    [][\A id \in 1..MaxPositions, m \in PriceMaps :
          ( /\ update_legs_current_prices_and_unrealized_pnl(id, m)
            /\ id \in DOMAIN positions
            /\ positions[id].status = "OPEN" )
          => /\ DOMAIN option_legs' = DOMAIN option_legs
             /\ \A i \in DOMAIN option_legs :
                   option_legs'[i] =
                     IF option_legs[i].position_id = id /\ i \in DOMAIN m
                     THEN [option_legs[i] EXCEPT !.current_price_per_unit = Some(m[i])]
                     ELSE option_legs[i]
             /\ positions'[id].unrealized_pnl =
                   SetSum(LegIdsOf(option_legs', id),
                          [i \in DOMAIN option_legs' |->
                              LegUnrealizedOf(option_legs'[i])])
             /\ positions'[id].status = "OPEN"]_vars

\* An OPEN position holding a share leg and a call with no current price; a
\* map naming only the share leg has just been applied.
C16_Witness ==
    /\ last.op = "update_legs_current_prices_and_unrealized_pnl"
    /\ last.found
    /\ 1 \in DOMAIN positions
    /\ positions[1].status = "OPEN"
    /\ DOMAIN option_legs = {1, 2}
    /\ option_legs[1].option_type = "STOCK"
    /\ option_legs[1].current_price_per_unit = Some(3)
    /\ option_legs[2].option_type = "CALL"
    /\ IsNone(option_legs[2].current_price_per_unit)
    /\ positions[1].unrealized_pnl = (3 - 5) * 10

\* current x quantity x multiplier over every leg that has a current price
\* and belongs to an OPEN position, the multiplier 1 for a stock leg and 100
\* for an option leg.
MarketValueOf(pos, legs) ==
    SetSum({i \in DOMAIN legs :
               /\ legs[i].position_id \in DOMAIN pos
               /\ pos[legs[i].position_id].status = "OPEN"
               /\ ~IsNone(legs[i].current_price_per_unit)},
           [i \in DOMAIN legs |->
               IF IsNone(legs[i].current_price_per_unit) THEN 0
               ELSE Val(legs[i].current_price_per_unit) * legs[i].quantity
                    * LegMultiplier(legs[i])])

\* C17: the open-position market value is the sum, over every OPEN position
\* and every one of its legs that has a current price, of current x quantity
\* x multiplier (1 for stock legs, 100 for option legs); stock positions are
\* included; other positions and legs without a current price contribute 0.
C17_OpenMarketValue ==
    calculate_total_open_positions_market_value(positions, option_legs)
        = MarketValueOf(positions, option_legs)

\* What C17 says of the positions that hold no stock leg and are not
\* labelled "Stock": there the option formula is the whole of it.
C17_OptionPositionsValued ==
    (\A i \in DOMAIN option_legs :
        /\ option_legs[i].option_type # "STOCK"
        /\ option_legs[i].position_id \in DOMAIN positions
            => positions[option_legs[i].position_id].spread_type # "Stock")
    => C17_OpenMarketValue

\* The sum of realized_pnl over the CLOSED positions plus the sum of
\* unrealized_pnl over the OPEN ones.
OverallPnlOf(pos) ==
    SetSum(DOMAIN pos,
           [p \in DOMAIN pos |->
               IF pos[p].status = "CLOSED" THEN pos[p].realized_pnl
               ELSE IF pos[p].status = "OPEN" THEN pos[p].unrealized_pnl
               ELSE 0])

\* C18: after any sequence of position operations the summary's overall
\* portfolio P&L is the sum of realized_pnl over the CLOSED positions plus the
\* sum of unrealized_pnl over the OPEN positions, positions in any other status
\* contributing nothing, and its total_portfolio_value is the cash balance
\* plus the open-position market value.
C18_SummaryTotals ==
    LET summary == get_portfolio_summary_data(positions, option_legs, cash_setting)
    IN  /\ summary.overall_portfolio_pnl = OverallPnlOf(positions)
        /\ summary.total_portfolio_value
             = summary.cash_balance + MarketValueOf(positions, option_legs)

\* The part of C18 that does not rest on how a stock leg is valued: the
\* overall P&L, and the total as the cash balance plus the market value the
\* summary itself reports.
C18_SummaryAsComputed ==
    LET summary == get_portfolio_summary_data(positions, option_legs, cash_setting)
    IN  /\ summary.overall_portfolio_pnl = OverallPnlOf(positions)
        /\ summary.cash_balance = StartCash
        /\ summary.total_portfolio_value
             = summary.cash_balance + summary.total_open_positions_market_value

\* C19: creating a stock position (the is-stock flag set, one representative
\* STOCK leg of q shares entered at p) stores a position whose cost_basis is
\* q x p, the multiplier being 1 and not 100.
C19_StockCostBasis ==
    last.op = "create_position(is_stock_position=True)" =>
        /\ last.exc = ""
        /\ \E p \in DOMAIN positions :
              /\ positions[p].is_stock_position
              /\ positions[p].cost_basis
                   = StockLeg.quantity * StockLeg.entry_price_per_unit

\* The only creation the store accepts for a share holding, the call without
\* the flag: its cost basis under the claim's formula.
C19_StockLegCostBasisUnflagged ==
    \A p \in DOMAIN positions :
        ( /\ positions[p].spread_type = "Stock"
          /\ last.op = "create_position" /\ last.exc = ""
          /\ \E i \in DOMAIN option_legs :
                /\ LegIdsOf(option_legs, p) = {i}
                /\ option_legs[i].option_type = "STOCK" )
        => positions[p].cost_basis = StockLeg.quantity * StockLeg.entry_price_per_unit

\* C20: calculate_position_delta resolves the underlying price under the
\* Position's underlying symbol: when the price-override map has that symbol
\* the price is the map's and the live source is not called; otherwise the
\* live source is called exactly once, with that symbol, whatever the
\* strategy label reads.
C20_PriceUnderUnderlyingSymbol ==
    ( /\ delta_out.ret # "none"
      /\ delta_position.has_legs
      /\ ~IsNone(delta_position.underlying_symbol) )
    => LET y == Val(delta_position.underlying_symbol)
       IN  IF ~IsNone(delta_overrides) /\ y \in DOMAIN Val(delta_overrides)
           THEN /\ delta_out.fetched = <<>>
                /\ delta_out.price = Some(Val(delta_overrides)[y])
           ELSE delta_out.fetched = <<y>>

\* Where the label's first word is the position's underlying symbol, the
\* price is resolved as C20 says.
C20_PriceWhenLabelStartsWithSymbol ==
    ( /\ delta_position # <<>>
      /\ delta_position.spread_type # ""
      /\ Some(FirstWord(delta_position.spread_type)) = delta_position.underlying_symbol )
    => C20_PriceUnderUnderlyingSymbol

\* C21: calculate_leg_delta raises a value error for every option kind other
\* than CALL or PUT (letter case aside), at every time to expiry, T <= 0
\* included, and never returns a number for such a kind.
C21_UnknownKindRaises ==
    ( /\ calc_out.exc # "none"
      /\ Upper(calc_args.option_type) \notin {"CALL", "PUT"} )
    => calc_out.exc = "ValueError"

\* What C21 says, for the legs that have not expired.
C21_UnknownKindRaisesBeforeExpiry ==
    ( /\ calc_args # <<>>
      /\ calc_args.time_to_expiry_years > 0 )
    => C21_UnknownKindRaises

\* The value a Greek is to return where T <= 0 or sigma <= 0 or S <= 0: 1, 0
\* or 0.5 for delta_call and -1, 0 or -0.5 for delta_put as S is above, below
\* or at K, and 0 for the others (in thousandths).
DegenerateGreekOf(fn, S, K) ==
    IF fn = "delta_call" THEN (IF S > K THEN 1000 ELSE IF S < K THEN 0 ELSE 500)
    ELSE IF fn = "delta_put" THEN (IF S < K THEN -1000 ELSE IF S > K THEN 0 ELSE -500)
    ELSE 0

\* C22: whenever T <= 0 or sigma <= 0 or S <= 0, gamma, vega, theta_call,
\* theta_put, rho_call and rho_put return 0 and delta_call / delta_put return
\* their fallback value; none of them raises or evaluates the closed-form
\* formula there.
C22_DegenerateGreeks ==
    ( /\ calc_out.exc # "none"
      /\ (calc_args.T <= 0 \/ calc_args.sigma <= 0 \/ calc_args.S <= 0) )
    => calc_out = Num(DegenerateGreekOf(calc_args.fn, calc_args.S, calc_args.K))

\* What C22 says, for gamma, vega and the thetas on the whole region and for
\* the deltas and rhos where T <= 0 or sigma <= 0.
C22_DegenerateGreeksWhereGuarded ==
    ( /\ calc_args # <<>>
      /\ \/ calc_args.fn \in {"gamma", "vega", "theta_call", "theta_put"}
         \/ calc_args.T <= 0
         \/ calc_args.sigma <= 0 )
    => C22_DegenerateGreeks

\* C23: put-call parity for all valid inputs: call price - put price =
\* S - K x e^(-rT), in the closed-form branch, in the T <= 0 branch and in the
\* sigma <= 0 branch alike (both sides in millionths).
C23_PutCallParity ==
    calc_out.exc = "" =>
        calc_out.call - calc_out.put
            = (calc_args.S * 1000 - calc_args.K * ExpNeg(calc_args.r, calc_args.T)) * 1000

\* Parity outside the sigma <= 0 branch, and inside it when r x T = 0.
C23_ParityElsewhere ==
    ( /\ calc_args # <<>>
      /\ \/ calc_args.T <= 0
         \/ calc_args.sigma > 0
         \/ calc_args.r * calc_args.T = 0 )
    => C23_PutCallParity

RECURSIVE GrossOf(_, _)
\* The sum of the values of pnls whose sign is sign (1 profits, -1 losses);
\* a value of 0 is in neither sum.
GrossOf(pnls, sign) ==
    IF pnls = <<>> THEN 0
    ELSE (IF Head(pnls) * sign > 0 THEN Head(pnls) ELSE 0) + GrossOf(Tail(pnls), sign)

\* C24: calculate_profit_factor returns gross_profit / |gross_loss| when
\* gross_loss is not 0 (so 0 when there are only losses), +infinity when
\* gross_loss is 0 and gross_profit is positive, and 0 when both are 0 or the
\* list is empty; values equal to 0 count as neither profit nor loss.
C24_ProfitFactor ==
    calc_out.exc = "" =>
        LET gross_profit == GrossOf(calc_args, 1)
            gross_loss == GrossOf(calc_args, -1)
        IN  IF gross_loss # 0
            THEN /\ ~calc_out.inf
                 /\ calc_out.den > 0
                 /\ calc_out.num * (-gross_loss) = gross_profit * calc_out.den
                 /\ (gross_profit = 0 => calc_out.num = 0)
            ELSE IF gross_profit > 0 THEN calc_out = Infinity
            ELSE calc_out = Fraction(0, 1)

\* A list with a profit, a value of 0 and a loss: 100 / 50.
C24_Witness ==
    /\ calc_out.exc = ""
    /\ calc_args = <<100, 0, -50>>
    /\ calc_out = Fraction(100, 50)

\* Every leg row names a position row that exists.
EveryLegOwned(pos, legs) == \A i \in DOMAIN legs : legs[i].position_id \in DOMAIN pos

\* C25: each Leg belongs to an existing Position in every reachable state:
\* delete_position removes the position together with all of its legs,
\* delete_position and add_legs_to_position on a missing position change
\* nothing, and no operation leaves a leg whose parent position is gone.
C25_LegsOwnedByExistingPosition ==
    [][ /\ EveryLegOwned(positions', option_legs')
        /\ \A id \in 1..MaxPositions :
              /\ (delete_position(id) /\ id \in DOMAIN positions)
                    => /\ id \notin DOMAIN positions'
                       /\ LegIdsOf(option_legs', id) = {}
                       /\ \A i \in DOMAIN option_legs \ LegIdsOf(option_legs, id) :
                             i \in DOMAIN option_legs' /\ option_legs'[i] = option_legs[i]
              /\ (delete_position(id) /\ id \notin DOMAIN positions)
                    => UNCHANGED <<positions, option_legs, pending>>
              /\ \A l \in LegsDataInputs :
                    (add_legs_to_position(id, l) /\ id \notin DOMAIN positions)
                    => UNCHANGED <<positions, option_legs, pending>> ]_vars

\* A position that owned two legs has just been deleted, and no leg is left.
C25_Witness ==
    /\ last.op = "delete_position"
    /\ last.found
    /\ last.legs_deleted = 2
    /\ DOMAIN positions = {}
    /\ DOMAIN option_legs = {}

RECURSIVE LegDictsOf(_, _)
\* The legs with the ids in ids, lowest id first, as the list of dicts
\* validate_spread_legs is given.
LegDictsOf(legs, ids) ==
    IF ids = {} THEN <<>>
    ELSE LET i == CHOOSE j \in ids : \A k \in ids : j <= k
         IN  <<LegDict(legs[i])>> \o LegDictsOf(legs, ids \ {i})

\* The stored position p has a leg set that validate_spread_legs accepts for
\* its label.
LegSetAccepted(pos, legs, p) ==
    LET v == validate_spread_legs(pos[p].spread_type,
                                  LegDictsOf(legs, LegIdsOf(legs, p)))
    IN  v.exc = "" /\ v.valid

\* C26: every stored Position whose strategy label is a recognized template
\* (Bull Call Spread, Iron Condor) has a leg set that validate_spread_legs
\* accepts for that label, in every state reached by any sequence of
\* create_position and add_legs_to_position.
C26_StoredTemplatesValid ==
    \A p \in DOMAIN positions :
        Upper(positions[p].spread_type) \in SPREAD_VALIDATORS
            => LegSetAccepted(positions, option_legs, p)

\* add_legs_to_position on a stored template position whose legs are
\* accepted leaves them accepted.
C26_AddLegsKeepsTemplateValid ==
    [][\A id \in 1..MaxTemplatePositions, l \in LegsDataInputs :
          ( /\ add_legs_to_position_in(MaxTemplateLegs, id, l)
            /\ id \in DOMAIN positions
            /\ Upper(positions[id].spread_type) \in SPREAD_VALIDATORS
            /\ LegSetAccepted(positions, option_legs, id) )
          => LegSetAccepted(positions', option_legs', id)]_vars

\* The position's stored unrealized_pnl is the sum of the per-leg unrealized
\* P&L over its legs' stored current prices.
AggregateFresh(pos, legs, p) ==
    pos[p].unrealized_pnl
        = SetSum(LegIdsOf(legs, p), [i \in DOMAIN legs |-> LegUnrealizedOf(legs[i])])

\* C27: after every completed leg-price mutation on an OPEN position, by
\* update_leg_current_price or by
\* update_legs_current_prices_and_unrealized_pnl, the position's stored
\* unrealized_pnl equals the sum of the per-leg unrealized P&L over the legs'
\* stored current prices.
C27_AggregateFollowsLegPrices ==
    [][ /\ \A id \in 1..MaxLegs, price \in LegPriceInputs :
              ( /\ update_leg_current_price(id, price)
                /\ id \in DOMAIN option_legs
                /\ option_legs[id].position_id \in DOMAIN positions
                /\ positions[option_legs[id].position_id].status = "OPEN" )
              => AggregateFresh(positions', option_legs', option_legs[id].position_id)
        /\ \A id \in 1..MaxPositions, m \in PriceMaps :
              ( /\ update_legs_current_prices_and_unrealized_pnl(id, m)
                /\ id \in DOMAIN positions
                /\ positions[id].status = "OPEN" )
              => AggregateFresh(positions', option_legs', id) ]_vars

\* The half of C27 that is about
\* update_legs_current_prices_and_unrealized_pnl.
C27_AggregateFollowsPriceMap ==
    [][\A id \in 1..MaxPositions, m \in PriceMaps :
          ( /\ update_legs_current_prices_and_unrealized_pnl(id, m)
            /\ id \in DOMAIN positions
            /\ positions[id].status = "OPEN" )
          => AggregateFresh(positions', option_legs', id)]_vars

\* C28: a Position whose status is not CLOSED has realized_pnl = 0 and no
\* closing_price, in every state reached from create_position by
\* update_position_status calls: a closing price passed with a non-CLOSED
\* status is not stored, and moving a CLOSED position to OPEN, ROLLED or
\* EXPIRED clears both fields.
C28_NotClosedHasNoRealized ==
    \A p \in DOMAIN positions :
        positions[p].status # "CLOSED"
            => positions[p].realized_pnl = 0 /\ IsNone(positions[p].closing_price)

\* A position that was CLOSED has just been moved to ROLLED: both fields
\* are clear.
C28_Witness ==
    /\ last.op = "update_position_status" /\ last.found
    /\ last.original_status = "CLOSED"
    /\ 1 \in DOMAIN positions
    /\ positions[1].status = "ROLLED"
    /\ positions[1].realized_pnl = 0
    /\ IsNone(positions[1].closing_price)

\* C29: under every interleaving of two concurrent update_cash_balance calls
\* (each a read of the balance, a check, and a write-back), the stored cash
\* balance is never negative, lost updates included: whatever is written is a
\* balance one call computed and checked against what it read.
C29_ConcurrentBalanceNeverNegative ==
    /\ ~IsNone(cash_setting) => Val(cash_setting) >= 0
    /\ \A t \in Txns : txn[t].pc \in {"read", "done"} => txn[t].new_balance >= 0

\* C29 witness: two withdrawals on an existing entry both read the same
\* balance before either wrote and both wrote; together they exceed that
\* balance, one of them is lost, and the stored balance is not negative.
C29_Witness ==
    \E p \in Txns, q \in Txns :
        /\ p # q
        /\ txn[p].found /\ txn[q].found
        /\ txn[p].pc = "done" /\ txn[q].pc = "done"
        /\ txn[p].seenWrites = 0 /\ txn[q].seenWrites = 0
        /\ ~txn[p].is_deposit /\ ~txn[q].is_deposit
        /\ txn[p].amount > 0 /\ txn[q].amount > 0
        /\ txn[p].amount + txn[q].amount > txn[p].current_balance
        /\ txn[q].wrote = 2
        /\ cash_setting = Some(txn[q].new_balance)
        /\ Val(cash_setting) >= 0

\* C30: closing is idempotent.  When the call before was update_position_status
\* on the same position and left it CLOSED, update_position_status(id, CLOSED,
\* p) with p the stored closing price or no closing price leaves the
\* position's status, closing_price, realized_pnl and unrealized_pnl as they
\* were.
C30_CloseIsIdempotent ==
    [][\A id \in 1..MaxPositions, s \in StatusInputs, p \in ClosingPriceInputs :
          (/\ last.op = "update_position_status" /\ last.found
           /\ last.position_id = id
           /\ id \in DOMAIN positions
           /\ positions[id].status = "CLOSED"
           /\ Upper(s) = "CLOSED"
           /\ (IsNone(p) \/ p = positions[id].closing_price)
           /\ update_position_status(id, s, p))
          => /\ id \in DOMAIN positions'
             /\ positions'[id].status = positions[id].status
             /\ positions'[id].closing_price = positions[id].closing_price
             /\ positions'[id].realized_pnl = positions[id].realized_pnl
             /\ positions'[id].unrealized_pnl = positions[id].unrealized_pnl]_vars

\* C30 witness: a position closed at a price, with a realized P&L other than
\* 0, has just been closed again by the very next call and carries the same
\* price and the realized P&L that price gives.
C30_Witness ==
    /\ last.op = "update_position_status" /\ last.found /\ last.repeated
    /\ last.original_status = "CLOSED"
    /\ last.position_id \in DOMAIN positions
    /\ LET pos == positions[last.position_id]
       IN  /\ pos.status = "CLOSED"
           /\ ~IsNone(pos.closing_price)
           /\ pos.realized_pnl # 0
           /\ pos.realized_pnl = Val(pos.closing_price) - pos.cost_basis
           /\ pos.unrealized_pnl = 0

====
